---- MODULE Spec2Model ----
(***************************************************************************)
(* BoardingLab: the discrete-time boarding simulator (engine/Simulation.js *)
(* over engine/Aircraft.js), the boarding-order derivation                 *)
(* (algorithms/AlgorithmRunner.js) and the application's run paths.        *)
(***************************************************************************)
EXTENDS Integers, Sequences, FiniteSets, TLC

(***************************************************************************)
(* Bounds of the model.                                                    *)
(***************************************************************************)
MaxRows == 2
MaxPassengers == 3
MaxBin == 1
MaxPriority == 1
MaxTicks == 8
MaxDraws == 6
RandomGrain == 4
\* GeneticOptimizer: populationSize (50), generations (20) and elitismCount
\* (5) of the code, scaled down
populationSize == 2
generations == 2
elitismCount == 1

(***************************************************************************)
(* Program constants.                                                      *)
(***************************************************************************)
\* Aircraft.js DEFAULT_CONFIG.columns / aislePosition
columns == <<"A", "B", "C", "D", "E", "F">>
aislePosition == 3
\* Simulation.runToCompletion(maxSteps = 10000)
maxSteps == 10000

ColumnSet == {columns[i] : i \in 1..Len(columns)}

\* Passenger.js CarryOnSize
CarryOnSize == {"none", "small", "large"}

\* Passenger.js STOW_TIMES
STOW_TIMES == [none |-> 0, small |-> 3, large |-> 8]

\* Simulation.js PassengerState
WAITING == "waiting"
WALKING == "walking"
STOWING == "stowing"
SHUFFLING == "shuffling"
SEATING == "seating"
SEATED == "seated"

\* Simulation.js EventType
ENTER == "enter"
MOVE == "move"
STOW_START == "stow_start"
STOW_END == "stow_end"
SHUFFLE_START == "shuffle_start"
SHUFFLE_END == "shuffle_end"
SEAT == "seat"
AISLE_BLOCKED == "aisle_blocked"
BIN_FULL == "bin_full"

\* null in a seat or aisle slot; passenger ids are positive
NoPassenger == 0
\* a key that an event's payload does not carry
Absent == -1

(***************************************************************************)
(* Aircraft                                                                *)
(***************************************************************************)
\* targetColumn.charCodeAt(0) - 'A'.charCodeAt(0)
ColumnIndex(c) == CHOOSE i \in 0..(Len(columns) - 1) : columns[i + 1] = c

\* String.fromCharCode('A'.charCodeAt(0) + i)
ColumnOfIndex(i) == columns[i + 1]

\* new Aircraft({rows, binCapacityPerRow})
NewAircraft(rows, cap) ==
    [rows |-> rows,
     binCapacityPerRow |-> cap,
     binCapacity |-> [r \in 1..rows |-> cap],
     seats |-> [k \in (1..rows) \X ColumnSet |-> NoPassenger],
     aisle |-> [r \in 0..rows |-> NoPassenger]]

\* a reset that leaves the aircraft as the last run left it
AircraftReset_Keep(a) == a

\* a reset that leaves the bins as the last run left them
AircraftReset_KeepBins(a) ==
    [a EXCEPT !.seats = [k \in (1..a.rows) \X ColumnSet |-> NoPassenger],
              !.aisle = [r \in 0..a.rows |-> NoPassenger]]

\* Aircraft.reset
AircraftReset(a) ==
    [a EXCEPT !.binCapacity = [r \in 1..a.rows |-> a.binCapacityPerRow],
              !.seats = [k \in (1..a.rows) \X ColumnSet |-> NoPassenger],
              !.aisle = [r \in 0..a.rows |-> NoPassenger]]

isSeatOccupied(a, row, column) == a.seats[<<row, column>>] # NoPassenger

seatPassenger(a, p) == [a EXCEPT !.seats[<<p.row, p.column>>] = p.id]

\* isAisleOccupied that finds every cell free
isAisleOccupied_Never(a, row) == FALSE

\* this.aisle.get(row) !== null; a row that is not a key gives undefined
isAisleOccupied(a, row) ==
    IF row \in DOMAIN a.aisle THEN a.aisle[row] # NoPassenger ELSE TRUE

placeInAisle(a, p, row) == [a EXCEPT !.aisle[row] = p.id]

\* removeFromAisle that leaves the cell as it is
removeFromAisle_Keep(a, row) == a

removeFromAisle(a, row) == [a EXCEPT !.aisle[row] = NoPassenger]

\* units a carry-on needs: small 1, anything else 2
Required(carryOnSize) == IF carryOnSize = "small" THEN 1 ELSE 2

\* hasBinCapacity that finds room for every carry-on
hasBinCapacity_Always(a, row, carryOnSize) == TRUE

hasBinCapacity(a, row, carryOnSize) ==
    IF carryOnSize = "none" THEN TRUE
    ELSE a.binCapacity[row] >= Required(carryOnSize)

\* useBinCapacity that subtracts without comparing with the remaining capacity
useBinCapacity_Unchecked(a, row, carryOnSize) ==
    IF carryOnSize = "none" THEN a
    ELSE [a EXCEPT !.binCapacity[row] = @ - Required(carryOnSize)]

\* the aircraft after useBinCapacity; its return value is hasBinCapacity
useBinCapacity(a, row, carryOnSize) ==
    IF carryOnSize = "none" THEN a
    ELSE IF a.binCapacity[row] >= Required(carryOnSize)
         THEN [a EXCEPT !.binCapacity[row] = @ - Required(carryOnSize)]
         ELSE a

\* null where the other values are positive numbers: the result of
\* findNearestBinCapacity, the groupId of a passenger
null == 0

\* the loop of findNearestBinCapacity that looks at the row below first
RECURSIVE findNearestFrom_BelowFirst(_, _, _, _)
findNearestFrom_BelowFirst(a, startRow, carryOnSize, offset) ==
    IF offset > a.rows THEN [aircraft |-> a, row |-> null]
    ELSE IF startRow + offset <= a.rows
            /\ hasBinCapacity(a, startRow + offset, carryOnSize)
         THEN [aircraft |-> a, row |-> startRow + offset]
    ELSE IF startRow - offset >= 1
            /\ hasBinCapacity(a, startRow - offset, carryOnSize)
         THEN [aircraft |-> a, row |-> startRow - offset]
    ELSE findNearestFrom_BelowFirst(a, startRow, carryOnSize, offset + 1)

\* the loop of findNearestBinCapacity from an offset on: the row returned
\* and the aircraft as the calls of hasBinCapacity leave it
RECURSIVE findNearestFrom(_, _, _, _)
findNearestFrom(a, startRow, carryOnSize, offset) ==
    IF offset > a.rows THEN [aircraft |-> a, row |-> null]
    ELSE IF startRow - offset >= 1
            /\ hasBinCapacity(a, startRow - offset, carryOnSize)
         THEN [aircraft |-> a, row |-> startRow - offset]
    ELSE IF startRow + offset <= a.rows
            /\ hasBinCapacity(a, startRow + offset, carryOnSize)
         THEN [aircraft |-> a, row |-> startRow + offset]
    ELSE findNearestFrom(a, startRow, carryOnSize, offset + 1)

findNearestBinCapacity(a, startRow, carryOnSize) ==
    findNearestFrom(a, startRow, carryOnSize, 0)

\* the scan that goes on to the target column itself
ScanIndices_Inclusive(targetIndex) ==
    IF targetIndex < aislePosition
    THEN [k \in 1..(aislePosition - targetIndex) |-> aislePosition - k]
    ELSE [k \in 1..(targetIndex - aislePosition + 1) |-> aislePosition + k - 1]

\* the column indices the scan visits, in the order of the loop
ScanIndices(targetIndex) ==
    IF targetIndex < aislePosition
    THEN [k \in 1..(aislePosition - 1 - targetIndex) |-> aislePosition - k]
    ELSE [k \in 1..(targetIndex - aislePosition) |-> aislePosition + k - 1]

getBlockingSeats(a, row, targetColumn) ==
    LET scan == ScanIndices(ColumnIndex(targetColumn))
        cols == [k \in 1..Len(scan) |-> ColumnOfIndex(scan[k])]
        occupied(col) == isSeatOccupied(a, row, col)
    IN SelectSeq(cols, occupied)

(***************************************************************************)
(* Simulation, as functions of the simulation object s                     *)
(***************************************************************************)
NewPassengerState ==
    [state |-> WAITING, aisleRow |-> -1, stowRemaining |-> 0,
     shuffleRemaining |-> 0, waitTime |-> 0, enteredAt |-> -1, seatedAt |-> -1]

\* Simulation.constructor -> reset()
SimReset(s) ==
    [s EXCEPT !.aircraft = AircraftReset(s.aircraft),
              !.currentStep = 0,
              !.isComplete = FALSE,
              !.events = <<>>,
              !.passengerStates = [i \in 1..Len(s.passengers) |-> NewPassengerState],
              !.queue = <<>>]

NewSimulation(passengers, aircraft) ==
    SimReset([aircraft |-> aircraft, passengers |-> passengers,
              currentStep |-> 0, isComplete |-> FALSE, events |-> <<>>,
              passengerStates |-> <<>>, queue |-> <<>>])

\* the queue holds references to run-states; the model holds their ids
setBoardingOrder(s, orderedIds) == [s EXCEPT !.queue = orderedIds]

\* the record _recordEvent builds: the common fields, then the data of the call
Event(s, type, p) ==
    [step |-> s.currentStep, type |-> type, passengerId |-> p.id,
     passengerRow |-> p.row, passengerColumn |-> p.column]

EventAt(s, type, p, row) ==
    [step |-> s.currentStep, type |-> type, passengerId |-> p.id,
     passengerRow |-> p.row, passengerColumn |-> p.column, row |-> row]

EventMove(s, p, from, to) ==
    [step |-> s.currentStep, type |-> MOVE, passengerId |-> p.id,
     passengerRow |-> p.row, passengerColumn |-> p.column,
     from |-> from, to |-> to]

EventBlocked(s, p, row, blockedBy) ==
    [step |-> s.currentStep, type |-> AISLE_BLOCKED, passengerId |-> p.id,
     passengerRow |-> p.row, passengerColumn |-> p.column,
     row |-> row, blockedBy |-> blockedBy]

EventShuffle(s, p, row, blocking) ==
    [step |-> s.currentStep, type |-> SHUFFLE_START, passengerId |-> p.id,
     passengerRow |-> p.row, passengerColumn |-> p.column,
     row |-> row, blocking |-> blocking]

EventSeat(s, p) ==
    [step |-> s.currentStep, type |-> SEAT, passengerId |-> p.id,
     passengerRow |-> p.row, passengerColumn |-> p.column,
     row |-> p.row, column |-> p.column]

recordEvent(s, e) == [s EXCEPT !.events = Append(@, e)]

InAisleState(st) == st \in {WALKING, STOWING, SHUFFLING, SEATING}

\* stable insertion of id into a list sorted by descending aisleRow
RECURSIVE InsertDesc(_, _, _)
InsertDesc(id, sorted, ps) ==
    IF sorted = <<>> THEN <<id>>
    ELSE IF ps[Head(sorted)].aisleRow >= ps[id].aisleRow
         THEN <<Head(sorted)>> \o InsertDesc(id, Tail(sorted), ps)
         ELSE <<id>> \o sorted

RECURSIVE SortDesc(_, _)
SortDesc(ids, ps) ==
    IF ids = <<>> THEN <<>>
    ELSE InsertDesc(ids[Len(ids)], SortDesc(SubSeq(ids, 1, Len(ids) - 1), ps), ps)

\* _getAislePassengersSorted that sorts front to back
getAislePassengersSorted_FrontFirst(s) ==
    LET ids == [i \in 1..Len(s.passengers) |-> i]
        inAisle(i) == /\ s.passengerStates[i].state # WAITING
                      /\ s.passengerStates[i].state # SEATED
                      /\ s.passengerStates[i].aisleRow >= 0
        sorted == SortDesc(SelectSeq(ids, inAisle), s.passengerStates)
    IN [k \in 1..Len(sorted) |-> sorted[Len(sorted) + 1 - k]]

getAislePassengersSorted(s) ==
    LET ids == [i \in 1..Len(s.passengers) |-> i]
        inAisle(i) == /\ s.passengerStates[i].state # WAITING
                      /\ s.passengerStates[i].state # SEATED
                      /\ s.passengerStates[i].aisleRow >= 0
    IN SortDesc(SelectSeq(ids, inAisle), s.passengerStates)

\* _startSeating that shuffles three ticks whatever the number of blocking
\* seats
startSeating_Flat(s, id) ==
    LET p == s.passengers[id]
        ps == s.passengerStates[id]
        blocking == getBlockingSeats(s.aircraft, p.row, p.column)
    IN IF Len(blocking) > 0
       THEN recordEvent(
              [s EXCEPT !.passengerStates[id].state = SHUFFLING,
                        !.passengerStates[id].shuffleRemaining = 3],
              EventShuffle(s, p, ps.aisleRow, blocking))
       ELSE [s EXCEPT !.passengerStates[id].state = SEATING]

startSeating(s, id) ==
    LET p == s.passengers[id]
        ps == s.passengerStates[id]
        blocking == getBlockingSeats(s.aircraft, p.row, p.column)
    IN IF Len(blocking) > 0
       THEN recordEvent(
              [s EXCEPT !.passengerStates[id].state = SHUFFLING,
                        !.passengerStates[id].shuffleRemaining = Len(blocking) * 3],
              EventShuffle(s, p, ps.aisleRow, blocking))
       ELSE [s EXCEPT !.passengerStates[id].state = SEATING]

\* _processWalking that moves forward without looking at the next cell
processWalking_NoLookAhead(s, id) ==
    LET p == s.passengers[id]
        ps == s.passengerStates[id]
        aisleRow == ps.aisleRow
        nextRow == aisleRow + 1
    IN IF aisleRow = p.row
       THEN IF p.carryOnSize # "none"
            THEN LET s1 == recordEvent(
                             [s EXCEPT !.passengerStates[id].state = STOWING,
                                       !.passengerStates[id].stowRemaining =
                                           STOW_TIMES[p.carryOnSize]],
                             EventAt(s, STOW_START, p, aisleRow))
                 IN IF ~hasBinCapacity(s.aircraft, aisleRow, p.carryOnSize)
                    THEN recordEvent(s1, EventAt(s, BIN_FULL, p, aisleRow))
                    ELSE s1
            ELSE startSeating(s, id)
       ELSE recordEvent(
              [s EXCEPT !.aircraft = placeInAisle(
                            removeFromAisle(s.aircraft, aisleRow), p, nextRow),
                        !.passengerStates[id].aisleRow = nextRow],
              EventMove(s, p, aisleRow, nextRow))

\* _processWalking in which a slow passenger moves on every other tick only
processWalking_BySpeed(s, id) ==
    LET p == s.passengers[id]
        ps == s.passengerStates[id]
        aisleRow == ps.aisleRow
        nextRow == aisleRow + 1
    IN IF aisleRow = p.row
       THEN IF p.carryOnSize # "none"
            THEN LET s1 == recordEvent(
                             [s EXCEPT !.passengerStates[id].state = STOWING,
                                       !.passengerStates[id].stowRemaining =
                                           STOW_TIMES[p.carryOnSize]],
                             EventAt(s, STOW_START, p, aisleRow))
                 IN IF ~hasBinCapacity(s.aircraft, aisleRow, p.carryOnSize)
                    THEN recordEvent(s1, EventAt(s, BIN_FULL, p, aisleRow))
                    ELSE s1
            ELSE startSeating(s, id)
       ELSE IF /\ nextRow <= s.aircraft.rows
               /\ ~isAisleOccupied(s.aircraft, nextRow)
               /\ ~(p.walkSpeed = "slow" /\ s.currentStep % 2 = 0)
            THEN recordEvent(
                   [s EXCEPT !.aircraft = placeInAisle(
                                 removeFromAisle(s.aircraft, aisleRow), p, nextRow),
                             !.passengerStates[id].aisleRow = nextRow],
                   EventMove(s, p, aisleRow, nextRow))
            ELSE recordEvent(
                   [s EXCEPT !.passengerStates[id].waitTime = @ + 1],
                   EventBlocked(s, p, aisleRow, nextRow))

processWalking(s, id) ==
    LET p == s.passengers[id]
        ps == s.passengerStates[id]
        aisleRow == ps.aisleRow
        nextRow == aisleRow + 1
    IN IF aisleRow = p.row
       THEN IF p.carryOnSize # "none"
            THEN LET s1 == recordEvent(
                             [s EXCEPT !.passengerStates[id].state = STOWING,
                                       !.passengerStates[id].stowRemaining =
                                           STOW_TIMES[p.carryOnSize]],
                             EventAt(s, STOW_START, p, aisleRow))
                 IN IF ~hasBinCapacity(s.aircraft, aisleRow, p.carryOnSize)
                    THEN recordEvent(s1, EventAt(s, BIN_FULL, p, aisleRow))
                    ELSE s1
            ELSE startSeating(s, id)
       ELSE IF nextRow <= s.aircraft.rows /\ ~isAisleOccupied(s.aircraft, nextRow)
            THEN recordEvent(
                   [s EXCEPT !.aircraft = placeInAisle(
                                 removeFromAisle(s.aircraft, aisleRow), p, nextRow),
                             !.passengerStates[id].aisleRow = nextRow],
                   EventMove(s, p, aisleRow, nextRow))
            ELSE recordEvent(
                   [s EXCEPT !.passengerStates[id].waitTime = @ + 1],
                   EventBlocked(s, p, aisleRow, nextRow))

\* _processStowing that keeps the passenger stowing until the bin has room
processStowing_Strict(s, id) ==
    LET p == s.passengers[id]
        ps == s.passengerStates[id]
        s1 == [s EXCEPT !.passengerStates[id].stowRemaining = @ - 1]
    IN IF ps.stowRemaining - 1 <= 0 /\ hasBinCapacity(s.aircraft, ps.aisleRow, p.carryOnSize)
       THEN startSeating(
              recordEvent(
                [s1 EXCEPT !.aircraft =
                     useBinCapacity(s.aircraft, ps.aisleRow, p.carryOnSize)],
                EventAt(s, STOW_END, p, ps.aisleRow)),
              id)
       ELSE [s EXCEPT !.passengerStates[id].waitTime = @ + 1,
                      !.passengerStates[id].stowRemaining =
                          IF @ > 1 THEN @ - 1 ELSE @]

\* _processStowing that ends the stowing when the count falls below zero
processStowing_BelowZero(s, id) ==
    LET p == s.passengers[id]
        ps == s.passengerStates[id]
        s1 == [s EXCEPT !.passengerStates[id].stowRemaining = @ - 1]
    IN IF ps.stowRemaining - 1 < 0
       THEN startSeating(
              recordEvent(
                [s1 EXCEPT !.aircraft =
                     useBinCapacity(s.aircraft, ps.aisleRow, p.carryOnSize)],
                EventAt(s, STOW_END, p, ps.aisleRow)),
              id)
       ELSE [s1 EXCEPT !.passengerStates[id].waitTime = @ + 1]

processStowing(s, id) ==
    LET p == s.passengers[id]
        ps == s.passengerStates[id]
        s1 == [s EXCEPT !.passengerStates[id].stowRemaining = @ - 1]
    IN IF ps.stowRemaining - 1 <= 0
       THEN startSeating(
              recordEvent(
                [s1 EXCEPT !.aircraft =
                     useBinCapacity(s.aircraft, ps.aisleRow, p.carryOnSize)],
                EventAt(s, STOW_END, p, ps.aisleRow)),
              id)
       ELSE [s1 EXCEPT !.passengerStates[id].waitTime = @ + 1]

\* _processShuffling that ends the shuffle one tick early
processShuffling_Early(s, id) ==
    LET p == s.passengers[id]
        ps == s.passengerStates[id]
        s1 == [s EXCEPT !.passengerStates[id].shuffleRemaining = @ - 1,
                        !.passengerStates[id].waitTime = @ + 1]
    IN IF ps.shuffleRemaining - 1 <= 1
       THEN [recordEvent(s1, EventAt(s, SHUFFLE_END, p, ps.aisleRow))
                EXCEPT !.passengerStates[id].state = SEATING]
       ELSE s1

processShuffling(s, id) ==
    LET p == s.passengers[id]
        ps == s.passengerStates[id]
        s1 == [s EXCEPT !.passengerStates[id].shuffleRemaining = @ - 1,
                        !.passengerStates[id].waitTime = @ + 1]
    IN IF ps.shuffleRemaining - 1 <= 0
       THEN [recordEvent(s1, EventAt(s, SHUFFLE_END, p, ps.aisleRow))
                EXCEPT !.passengerStates[id].state = SEATING]
       ELSE s1

\* _processSeating that leaves the passenger's reference in the aisle cell
processSeating_KeepCell(s, id) ==
    LET p == s.passengers[id]
        ps == s.passengerStates[id]
    IN recordEvent(
         [s EXCEPT !.aircraft = seatPassenger(s.aircraft, p),
                   !.passengerStates[id].state = SEATED,
                   !.passengerStates[id].seatedAt = s.currentStep],
         EventSeat(s, p))

processSeating(s, id) ==
    LET p == s.passengers[id]
        ps == s.passengerStates[id]
    IN recordEvent(
         [s EXCEPT !.aircraft = seatPassenger(removeFromAisle(s.aircraft, ps.aisleRow), p),
                   !.passengerStates[id].state = SEATED,
                   !.passengerStates[id].seatedAt = s.currentStep],
         EventSeat(s, p))

\* _processPassengerInAisle that seats a passenger in the tick in which the
\* stowing ends
processPassengerInAisle_Through(s, id) ==
    LET state == s.passengerStates[id].state
        stowed == processStowing(s, id)
    IN CASE state = WALKING -> processWalking(s, id)
         [] state = STOWING ->
              IF stowed.passengerStates[id].state = SEATING
              THEN processSeating(stowed, id)
              ELSE stowed
         [] state = SHUFFLING -> processShuffling(s, id)
         [] state = SEATING -> processSeating(s, id)
         [] OTHER -> s

processPassengerInAisle(s, id) ==
    LET state == s.passengerStates[id].state
    IN CASE state = WALKING -> processWalking(s, id)
         [] state = STOWING -> processStowing(s, id)
         [] state = SHUFFLING -> processShuffling(s, id)
         [] state = SEATING -> processSeating(s, id)
         [] OTHER -> s

\* for (const ps of aislePassengers) this._processPassengerInAisle(ps)
RECURSIVE processAll(_, _)
processAll(ids, s) ==
    IF ids = <<>> THEN s
    ELSE processAll(Tail(ids), processPassengerInAisle(s, Head(ids)))

\* _tryAddFromQueue that does not look at the entrance cell
tryAddFromQueue_NoEntranceCheck(s) ==
    IF Len(s.queue) = 0 THEN s
    ELSE LET id == Head(s.queue)
             p == s.passengers[id]
         IN recordEvent(
              [s EXCEPT !.queue = Tail(@),
                        !.passengerStates[id].state = WALKING,
                        !.passengerStates[id].aisleRow = 0,
                        !.passengerStates[id].enteredAt = s.currentStep,
                        !.aircraft = placeInAisle(s.aircraft, p, 0)],
              Event(s, ENTER, p))

tryAddFromQueue(s) ==
    IF Len(s.queue) = 0 THEN s
    ELSE IF isAisleOccupied(s.aircraft, 0) THEN s
    ELSE LET id == Head(s.queue)
             p == s.passengers[id]
         IN recordEvent(
              [s EXCEPT !.queue = Tail(@),
                        !.passengerStates[id].state = WALKING,
                        !.passengerStates[id].aisleRow = 0,
                        !.passengerStates[id].enteredAt = s.currentStep,
                        !.aircraft = placeInAisle(s.aircraft, p, 0)],
              Event(s, ENTER, p))

\* _checkCompletion that is satisfied by the first seated passenger
checkCompletion_First(s) ==
    IF \E i \in 1..Len(s.passengers) : s.passengerStates[i].state = SEATED
    THEN [s EXCEPT !.isComplete = TRUE]
    ELSE s

checkCompletion(s) ==
    IF \E i \in 1..Len(s.passengers) : s.passengerStates[i].state # SEATED
    THEN s
    ELSE [s EXCEPT !.isComplete = TRUE]

\* step that admits from the queue before it processes the aisle
step_AdmitFirst(s) ==
    IF s.isComplete THEN s
    ELSE LET s1 == tryAddFromQueue([s EXCEPT !.currentStep = @ + 1])
         IN checkCompletion(processAll(getAislePassengersSorted(s1), s1))

\* step that goes on counting on a completed simulation
step_CountOn(s) ==
    IF s.isComplete THEN [s EXCEPT !.currentStep = @ + 1]
    ELSE LET s1 == [s EXCEPT !.currentStep = @ + 1]
             s2 == processAll(getAislePassengersSorted(s1), s1)
         IN checkCompletion(tryAddFromQueue(s2))

\* Simulation.step; its return value is ~isComplete of the result
step(s) ==
    IF s.isComplete THEN s
    ELSE LET s1 == [s EXCEPT !.currentStep = @ + 1]
             s2 == processAll(getAislePassengersSorted(s1), s1)
         IN checkCompletion(tryAddFromQueue(s2))

\* Simulation.runToCompletion(maxSteps): the simulation it leaves and the
\* step count it returns
RECURSIVE runToCompletion(_, _)
runToCompletion(s, max) ==
    IF ~s.isComplete /\ s.currentStep < max
    THEN runToCompletion(step(s), max)
    ELSE [sim |-> s, steps |-> s.currentStep]

(***************************************************************************)
(* State                                                                   *)
(***************************************************************************)
VARIABLES
    aircraft,         \* Simulation.aircraft: rows, bins, seats, aisle
    passengers,       \* Simulation.originalPassengers, ids 1..N in list order
    passengerStates,  \* Simulation.passengerStates, by passenger id
    queue,            \* Simulation.queue, as passenger ids
    currentStep,      \* Simulation.currentStep
    isComplete,       \* Simulation.isComplete
    events,           \* Simulation.events
    orderedIds,       \* the argument of the last setBoardingOrder, <<>> if none
    simB,             \* a second Simulation object (PairSpec), else NoSim
    runner,           \* a call of runAlgorithm: arguments and return value
    app,              \* the BoardingLab object: rng, selectedAlgorithm, snapshots
    reference,        \* the inputs and outcome of the first run of the app
    driver,           \* a call of runToCompletion or getBlockingSeats and what it returned
    validation,       \* a call of validateAlgorithm: arguments and outcome
    optimizer,        \* a GeneticOptimizer object and its call of optimize
    generator         \* a RandomGenerator object and the draws taken from it

simVars == <<aircraft, passengers, passengerStates, queue, currentStep,
             isComplete, events, orderedIds>>

\* the state outside the simulation objects
appVars == <<runner, app, reference>>

\* the objects of the library used on their own
libVars == <<driver, validation, optimizer, generator>>

vars == <<simVars, simB, appVars, libVars>>

\* no second simulation
NoSim == [currentStep |-> Absent]

\* no call of runAlgorithm, no application object, no run of it
NoRunner == [called |-> FALSE]
NoApp == [rng |-> Absent]
NoRun == [seed |-> Absent]

\* no call of runToCompletion or validateAlgorithm, no optimizer, no generator
NoDriver == [called |-> FALSE]
NoValidation == [called |-> FALSE]
NoOptimizer == [pc |-> "none"]
NoGenerator == [seed |-> Absent]
NoLib ==
    /\ driver = NoDriver /\ validation = NoValidation
    /\ optimizer = NoOptimizer /\ generator = NoGenerator

\* the simulation object made of the variables
Sim ==
    [aircraft |-> aircraft, passengers |-> passengers,
     passengerStates |-> passengerStates, queue |-> queue,
     currentStep |-> currentStep, isComplete |-> isComplete, events |-> events]

SetSim(s) ==
    /\ aircraft' = s.aircraft
    /\ passengers' = s.passengers
    /\ passengerStates' = s.passengerStates
    /\ queue' = s.queue
    /\ currentStep' = s.currentStep
    /\ isComplete' = s.isComplete
    /\ events' = s.events

\* the seats of a layout
Seats(rows) == (1..rows) \X ColumnSet

\* position of a seat in row-major order
SeatIndex(seat) == (seat[1] - 1) * Len(columns) + ColumnIndex(seat[2])

\* passenger lists with ids 1..n in list order and distinct seats in the
\* layout. Ids are labels: the lists are taken with seats in row-major order
\* and the boarding order ranges over every permutation of the ids, which
\* covers every assignment of seats to boarding positions.
PassengerLists(rows, n) ==
    {[i \in 1..n |-> [id |-> i, row |-> seat[i][1], column |-> seat[i][2],
                      carryOnSize |-> carry[i]]] :
        seat \in {f \in [1..n -> Seats(rows)] :
                     \A i, j \in 1..n : i < j => SeatIndex(f[i]) < SeatIndex(f[j])},
        carry \in [1..n -> CarryOnSize]}

\* passenger counts explored in a layout of the given number of rows: up to
\* MaxPassengers in one row, proportionally fewer in longer layouts
PassengerCounts(rows) == 0..(1 + (MaxPassengers - 1) \div rows)

\* the values of binCapacityPerRow explored: no room at all, or MaxBin units
BinCapacities == {0, MaxBin}

\* the boarding orders over ids 1..n: the permutations, as sequences
BoardingOrders(n) ==
    {f \in [1..n -> 1..n] : \A i, j \in 1..n : i # j => f[i] # f[j]}

\* new Simulation({passengers, aircraft}) into the variables
Construct(pl, rows, cap) ==
    LET s == NewSimulation(pl, NewAircraft(rows, cap))
    IN /\ aircraft = s.aircraft
       /\ passengers = s.passengers
       /\ passengerStates = s.passengerStates
       /\ queue = s.queue
       /\ currentStep = s.currentStep
       /\ isComplete = s.isComplete
       /\ events = s.events
       /\ orderedIds = <<>>

Init ==
    \E rows \in 1..MaxRows, cap \in BinCapacities :
      \E n \in PassengerCounts(rows) :
      \E pl \in PassengerLists(rows, n) :
        /\ Construct(pl, rows, cap)
        /\ simB = NoSim
        /\ runner = NoRunner /\ app = NoApp /\ reference = NoRun /\ NoLib

\* sim.setBoardingOrder(order), called once on a new or reset simulation
SetBoardingOrder ==
    /\ currentStep = 0
    /\ orderedIds = <<>>
    /\ Len(passengers) > 0
    /\ \E order \in BoardingOrders(Len(passengers)) :
         /\ SetSim(setBoardingOrder(Sim, order))
         /\ orderedIds' = order
    /\ UNCHANGED <<simB, appVars, libVars>>

\* the callers set the boarding order before the first tick
OrderSet == orderedIds # <<>> \/ Len(passengers) = 0

\* sim.step()
Step ==
    /\ OrderSet
    /\ SetSim(step(Sim))
    /\ UNCHANGED <<orderedIds, simB, appVars, libVars>>

\* sim.reset()
Reset ==
    /\ SetSim(SimReset(Sim))
    /\ orderedIds' = <<>>
    /\ UNCHANGED <<simB, appVars, libVars>>

Next == SetBoardingOrder \/ Step \/ Reset

Spec == Init /\ [][Next]_vars

(***************************************************************************)
(* Two simulations of the same passengers and boarding order whose         *)
(* aircraft differ in binCapacityPerRow                                    *)
(***************************************************************************)
PairInit ==
    \E rows \in 1..MaxRows, cap \in BinCapacities, capB \in BinCapacities :
      \E n \in PassengerCounts(rows) \ {0} :
        \E pl \in PassengerLists(rows, n) :
          /\ cap < capB
          /\ Construct(pl, rows, cap)
          /\ simB = NewSimulation(pl, NewAircraft(rows, capB))
          /\ runner = NoRunner /\ app = NoApp /\ reference = NoRun /\ NoLib

PairSetBoardingOrder ==
    /\ currentStep = 0
    /\ orderedIds = <<>>
    /\ \E order \in BoardingOrders(Len(passengers)) :
         /\ SetSim(setBoardingOrder(Sim, order))
         /\ orderedIds' = order
         /\ simB' = setBoardingOrder(simB, order)
    /\ UNCHANGED <<appVars, libVars>>

PairStep ==
    /\ OrderSet
    /\ SetSim(step(Sim))
    /\ simB' = step(simB)
    /\ UNCHANGED <<orderedIds, appVars, libVars>>

PairNext == PairSetBoardingOrder \/ PairStep

PairSpec == PairInit /\ [][PairNext]_vars

(***************************************************************************)
(* AlgorithmRunner.runAlgorithm                                            *)
(***************************************************************************)
\* the result of a priority function that is not a finite number; the
\* priorities of the presets and of PriorityValues stay away from it
NaN == -1000000

\* the finite priorities drawn for a priority function
PriorityValues == (0 - MaxPriority)..MaxPriority

\* the comparator with the opposite sign
comparator_Ascending(a, b) == a.priority - b.priority

\* (a, b) => b.priority - a.priority; a NaN difference counts as 0 in sort
comparator(a, b) ==
    IF a.priority = NaN \/ b.priority = NaN THEN 0 ELSE b.priority - a.priority

\* Array.prototype.sort is stable: an element goes behind every earlier
\* element that the comparator does not put after it
RECURSIVE insertByPriority(_, _)
insertByPriority(x, sorted) ==
    IF sorted = <<>> THEN <<x>>
    ELSE IF comparator(Head(sorted), x) <= 0
         THEN <<Head(sorted)>> \o insertByPriority(x, Tail(sorted))
         ELSE <<x>> \o sorted

RECURSIVE sortByPriority(_)
sortByPriority(list) ==
    IF list = <<>> THEN <<>>
    ELSE insertByPriority(list[Len(list)],
                          sortByPriority(SubSeq(list, 1, Len(list) - 1)))

\* withPriority.sort(...) and .map(p => p.id)
boardingOrder(withPriority) ==
    LET sorted == sortByPriority(withPriority)
    IN [k \in 1..Len(sorted) |-> sorted[k].id]

\* runAlgorithm(priorityFn, passengers, context); the priority function is
\* given by its value on each passenger of the list
runAlgorithm(priorityFn, list) ==
    boardingOrder([k \in 1..Len(list) |->
                     [id |-> list[k].id, priority |-> priorityFn[list[k].id]]])

\* no simulation object
NoSimulation ==
    /\ aircraft = Absent /\ passengers = <<>> /\ passengerStates = <<>>
    /\ queue = <<>> /\ currentStep = 0 /\ isComplete = FALSE
    /\ events = <<>> /\ orderedIds = <<>> /\ simB = NoSim

\* a passenger list of distinct ids in any order, a finite priority for each
SortInit ==
    \E n \in 0..MaxPassengers :
      \E order \in BoardingOrders(n), priorityFn \in [1..n -> PriorityValues] :
        /\ runner = [called |-> FALSE,
                     passengers |-> [k \in 1..n |-> [id |-> order[k]]],
                     priorityFn |-> priorityFn,
                     result |-> <<>>]
        /\ NoSimulation
        /\ app = NoApp /\ reference = NoRun /\ NoLib

RunAlgorithm ==
    /\ ~runner.called
    /\ runner' = [runner EXCEPT
                    !.called = TRUE,
                    !.result = runAlgorithm(runner.priorityFn, runner.passengers)]
    /\ UNCHANGED <<simVars, simB, app, reference, libVars>>

SortNext == RunAlgorithm

SortSpec == SortInit /\ [][SortNext]_vars

(***************************************************************************)
(* AlgorithmRunner.validateAlgorithm on a priority function given by what  *)
(* each of its calls does, in the order validateAlgorithm makes them       *)
(***************************************************************************)
\* a result that Number.isFinite rejects and Number.isNaN does not
Infinity == 1000000

\* what a call of the priority function does: it returns a number, returns
\* a value of another type, or throws
Returns(v) == [type |-> "number", value |-> v]
ReturnsString == [type |-> "string"]
Throws == [type |-> "throw"]
SampleOutcomes ==
    {Returns(0), Returns(MaxPriority), Returns(NaN), Returns(Infinity),
     ReturnsString, Throws}
RepeatOutcomes == {Returns(0), Returns(MaxPriority), Throws}

\* the loop over testPassengers from passenger i on: the errors it collects.
\* The clock passes the limit of 100 ms in iteration slowAt (0: never).
RECURSIVE samplingPass(_, _, _, _)
samplingPass(priorityFn, n, slowAt, i) ==
    IF i > n THEN <<>>
    ELSE LET result == priorityFn[i]
         IN IF result.type = "throw" THEN <<"Execution error">>
            ELSE IF result.type # "number"
                 THEN <<"Priority function returned string, expected number">>
            ELSE IF result.value = NaN THEN <<"Priority function returned NaN">>
            ELSE IF result.value = Infinity
                 THEN <<"Priority function returned Infinity">>
            ELSE IF slowAt = i THEN <<"Execution time exceeded limit">>
            ELSE samplingPass(priorityFn, n, slowAt, i + 1)

\* the loop that calls the function twice for each of the first
\* Math.min(5, testPassengers.length) passengers, from passenger i on; no
\* try surrounds these calls
RECURSIVE determinismPass(_, _, _)
determinismPass(priorityFn, n, i) ==
    IF i > (IF n < 5 THEN n ELSE 5) THEN [thrown |-> FALSE, errors |-> <<>>]
    ELSE LET result1 == priorityFn[n + 2 * i - 1]
             result2 == priorityFn[n + 2 * i]
         IN IF result1.type = "throw" \/ result2.type = "throw"
            THEN [thrown |-> TRUE, errors |-> <<>>]
            ELSE IF result1 # result2
                 THEN [thrown |-> FALSE,
                       errors |-> <<"Priority function is not deterministic">>]
                 ELSE determinismPass(priorityFn, n, i + 1)

\* validateAlgorithm(priorityFn, testPassengers, context) for n test
\* passengers: the ValidationResult, or the exception that leaves the call
validationOutcome(errors, repeat) ==
    IF errors # <<>> THEN [thrown |-> FALSE, isValid |-> FALSE, errors |-> errors]
    ELSE IF repeat.thrown THEN [thrown |-> TRUE]
    ELSE [thrown |-> FALSE, isValid |-> repeat.errors = <<>>,
          errors |-> repeat.errors]

\* the test passengers, the function and the clock of a call
ValidateInit ==
    \E n \in 0..(MaxPassengers - 1) :
      \E sample \in [1..n -> SampleOutcomes],
         repeat \in [(n + 1)..(3 * n) -> RepeatOutcomes],
         slowAt \in 0..n :
        /\ validation = [called |-> FALSE, testPassengers |-> n,
                         priorityFn |-> [k \in 1..(3 * n) |->
                                           IF k <= n THEN sample[k] ELSE repeat[k]],
                         slowAt |-> slowAt]
        /\ NoSimulation
        /\ runner = NoRunner /\ app = NoApp /\ reference = NoRun
        /\ driver = NoDriver /\ optimizer = NoOptimizer /\ generator = NoGenerator

ValidateAlgorithm ==
    /\ ~validation.called
    /\ validation' =
         [called |-> TRUE, testPassengers |-> validation.testPassengers,
          priorityFn |-> validation.priorityFn, slowAt |-> validation.slowAt,
          result |-> validationOutcome(
                       samplingPass(validation.priorityFn, validation.testPassengers,
                                    validation.slowAt, 1),
                       determinismPass(validation.priorityFn,
                                       validation.testPassengers, 1))]
    /\ UNCHANGED <<simVars, simB, appVars, driver, optimizer, generator>>

ValidateNext == ValidateAlgorithm

ValidateSpec == ValidateInit /\ [][ValidateNext]_vars

(***************************************************************************)
(* RandomGenerator and generatePassengers                                  *)
(***************************************************************************)
lcgA == 48271
lcgM == 2147483647

\* seed of new RandomGenerator()
defaultSeed == 12345

\* (a * seed) % m for 0 <= seed < m, with every intermediate value below
\* 2^31 (a * (seed mod q) - r * (seed div q), q = m div a, r = m mod a, is
\* congruent to a * seed and lies in -m..m)
lcgStep(seed) ==
    LET q == lcgM \div lcgA
        r == lcgM % lcgA
        t == (lcgA * (seed % q)) - (r * (seed \div q))
    IN IF t < 0 THEN t + lcgM ELSE t

\* this.seed = (a * this.seed) % m for -m < seed < m; the remainder of
\* JavaScript has the sign of the dividend
rngNext(seed) == IF seed < 0 THEN 0 - lcgStep(0 - seed) ELSE lcgStep(seed)

\* Math.floor((seed / m) * k) for -m < seed < m and 1 <= k < 2^15.
\* seed * k = H * 2^31 + L = H * m + (H + L) with 0 <= L < 2^31, so the
\* quotient is H, or H + 1 when H + L reaches m, or H - 1 when H + L is
\* negative. m is prime, so seed * k / m is no closer than 1/m to an
\* integer (or is 0) and the rounding of the two floating-point operations
\* cannot change the floor.
scale(seed, k) ==
    LET low == (seed % 65536) * k
        mid == ((seed \div 65536) * k) + (low \div 65536)
        H == mid \div 32768
        L == (mid % 32768) * 65536 + (low % 65536)
    IN IF H >= 0 THEN (IF L >= lcgM - H THEN H + 1 ELSE H)
       ELSE (IF L + H < 0 THEN H - 1 ELSE H)

\* rng.nextInt(min, max): the new seed and the value
nextInt(seed, min, max) ==
    LET s == rngNext(seed)
    IN [seed |-> s, value |-> scale(s, max - min + 1) + min]

\* rng.pick(array); an index that is no index of the array gives undefined
pick(seed, array) ==
    LET n == nextInt(seed, 0, Len(array) - 1)
    IN [seed |-> n.seed,
        value |-> IF n.value + 1 \in DOMAIN array THEN array[n.value + 1]
                  ELSE "undefined"]

\* what reading a property of the seat array that was never set gives:
\* undefined, held as a seat without row and column
undefined == [row |-> Absent, column |-> "undefined"]

\* one pass of the loop of rng.shuffle at index i (0-based): j is drawn and
\* array[i], array[j] are exchanged. The array is held with its properties
\* of negative index, which a negative j reads and writes; they start
\* undefined and are no elements of the array. Property k of an array of
\* the given length is at position k + length + 1.
shuffleAt(st, i) ==
    LET n == nextInt(st.seed, 0, i)
        at(k) == k + (Len(st.value) \div 2) + 1
    IN [seed |-> n.seed,
        value |-> [st.value EXCEPT ![at(i)] = st.value[at(n.value)],
                                   ![at(n.value)] = st.value[at(i)]]]

\* the passes for i = hi down to lo; the range is halved and the upper half
\* is evaluated before the lower one is entered, so that the evaluation
\* nests to the logarithm of the length
RECURSIVE shuffleRange(_, _, _)
shuffleRange(st, lo, hi) ==
    IF lo > hi THEN st
    ELSE IF lo = hi THEN shuffleAt(st, lo)
    ELSE LET mid == (lo + hi) \div 2
             upper == shuffleRange(st, mid + 1, hi)
         IN IF upper.seed = st.seed /\ lo > mid THEN upper
            ELSE shuffleRange(upper, lo, mid)

\* the array with its properties of index -length..length-1
withProperties(array) == [k \in 1..Len(array) |-> undefined] \o array

\* the array returned: the properties of index 0..length-1
elements(st, length) ==
    [seed |-> st.seed, value |-> SubSeq(st.value, length + 1, 2 * length)]

\* rng.shuffle(array)
shuffle(seed, array) ==
    elements(shuffleRange([seed |-> seed, value |-> withProperties(array)],
                          1, Len(array) - 1),
             Len(array))

\* the lists generatePassengers picks from
walkSpeeds == <<"slow", "normal", "normal", "normal", "fast">>
carryOnSizes == <<"none", "small", "small", "small", "large">>
complianceLevels ==
    <<"strict", "normal", "normal", "normal", "opportunistic">>

\* allSeats: the seats of rows 1..rows, row by row, columns in their order
RECURSIVE allSeats(_)
allSeats(rows) ==
    IF rows = 0 THEN <<>>
    ELSE allSeats(rows - 1) \o
         [c \in 1..Len(columns) |-> [row |-> rows, column |-> columns[c]]]

\* the passengers made so far with those of the seats that follow, unless
\* the map has thrown there
mapped(passenger, rest) ==
    IF rest.thrown THEN rest ELSE [rest EXCEPT !.value = <<passenger>> \o @]

\* selectedSeats.map(...): the passengers of seats index..Len, each with
\* three picks; reading seat.row of an undefined seat throws a TypeError
\* after the three picks of that passenger, and nothing is returned
RECURSIVE makePassengers(_, _, _)

\* the end of the callback of map at index, the picks made: the passenger
\* is constructed, or seat.row throws
newPassenger(passenger, seed, seats, index) ==
    IF passenger.row = Absent
    THEN [thrown |-> TRUE, seed |-> seed, value |-> <<>>]
    ELSE mapped(passenger, makePassengers(seed, seats, index + 1))

makePassengers(seed, seats, index) ==
    IF index > Len(seats) THEN [thrown |-> FALSE, seed |-> seed, value |-> <<>>]
    ELSE LET walkSpeed == pick(seed, walkSpeeds)
             carryOnSize == pick(walkSpeed.seed, carryOnSizes)
             compliance == pick(carryOnSize.seed, complianceLevels)
         IN newPassenger([id |-> index,
                          row |-> seats[index].row,
                          column |-> seats[index].column,
                          walkSpeed |-> walkSpeed.value,
                          carryOnSize |-> carryOnSize.value,
                          compliance |-> compliance.value],
                         compliance.seed, seats, index)

\* generatePassengers({count, rows, columns, rng}): the seed the generator
\* is left with and the passengers
generatePassengers(seed, count, rows) ==
    LET shuffled == shuffle(seed, allSeats(rows))
        taken == IF count < Len(shuffled.value) THEN count ELSE Len(shuffled.value)
    IN makePassengers(shuffled.seed, SubSeq(shuffled.value, 1, taken), 1)

(***************************************************************************)
(* BoardingLab: the application object and its handlers                    *)
(***************************************************************************)
\* DEFAULT_CONFIG of new Aircraft()
defaultRows == 30
defaultBinCapacityPerRow == 6

\* ids of the presets modelled; algorithmList[0] is the random preset
RandomPreset == "random"
BackToFrontPreset == "backToFront"
Presets == {RandomPreset, BackToFrontPreset}

\* code a user types into the editor
CodeNaN == "return 0/0;"
CodeNaNOffRow15 == "return passenger.row === 15 ? 1 : 0/0;"
CodeForLoop == "let n = 0; for (let i = 0; i < passenger.row; i++) n++; return n;"
CustomCodes == {CodeNaN, CodeNaNOffRow15, CodeForLoop}

\* compileAlgorithm: a pattern of the forbidden list matches the code; of
\* the codes above only the for loop is matched, by /\bfor\s*\(/
forbidden(code) == code = CodeForLoop

\* new Function('passenger', 'context', code) applied to a passenger
evalCode(code, p, context) ==
    IF code = CodeNaN THEN NaN
    ELSE IF code = CodeForLoop THEN p.row
    ELSE IF p.row = 15 THEN 1 ELSE NaN

\* an entry of algorithmList, and the newAlgo applyCustomCode builds from
\* the selected algorithm (its baseAlgorithm is the preset of the same id)
Preset(id) == [id |-> id, isModified |-> FALSE, code |-> ""]
Modified(algorithm, code) == [id |-> algorithm.id, isModified |-> TRUE, code |-> code]

\* the passenger and context applyCustomCode tests the compiled code with
samplePassenger ==
    [id |-> 1, row |-> 15, column |-> "C", walkSpeed |-> "normal",
     carryOnSize |-> "small", compliance |-> "normal"]
sampleContext == [totalRows |-> 30, totalPassengers |-> 150]

\* priorityFn(p.toContext(), context) of the function createPriorityFn
\* returns, with the seed the generator is left with. The random preset
\* returns rng.next() = seed / m, held here as the numerator: m is fixed
\* and the quotients of distinct seeds are distinct doubles.
priorityOf(algorithm, seed, p, context) ==
    IF algorithm.isModified
    THEN [seed |-> seed, value |-> evalCode(algorithm.code, p, context)]
    ELSE IF algorithm.id = RandomPreset
         THEN [seed |-> rngNext(seed), value |-> rngNext(seed)]
         ELSE [seed |-> seed, value |-> p.row]

\* this.passengers.map(p => ({id, priority})) from the index on
RECURSIVE withPriorities(_, _, _, _, _)
withPriorities(algorithm, seed, list, index, context) ==
    IF index > Len(list) THEN [seed |-> seed, value |-> <<>>]
    ELSE LET pr == priorityOf(algorithm, seed, list[index], context)
             rest == withPriorities(algorithm, pr.seed, list, index + 1, context)
         IN [seed |-> rest.seed,
             value |-> <<[id |-> list[index].id, priority |-> pr.value]>>
                       \o rest.value]

\* validateAlgorithm(priorityFn, testPassengers, context).valid for the
\* functions above: every result is a number, none is NaN (they are finite
\* otherwise, and the same on a second call)
validateAlgorithm(algorithm, seed, testPassengers, context) ==
    \A k \in 1..Len(testPassengers) :
        priorityOf(algorithm, seed, testPassengers[k], context).value # NaN

\* Simulation.getSnapshot
\* getSnapshot without the branch for WAITING: whoever is not seated is
\* listed in the aisle
getSnapshot_NoWaiting(s) ==
    LET ids == [i \in 1..Len(s.passengers) |-> i]
        seated(i) == s.passengerStates[i].state = SEATED
        waiting(i) == FALSE
        inAisle(i) == ~seated(i)
        entry(i) ==
            [id |-> s.passengers[i].id, row |-> s.passengers[i].row,
             column |-> s.passengers[i].column,
             state |-> s.passengerStates[i].state,
             aisleRow |-> s.passengerStates[i].aisleRow,
             waitTime |-> s.passengerStates[i].waitTime]
        entries(sel) == [k \in 1..Len(sel) |-> entry(sel[k])]
    IN [step |-> s.currentStep,
        isComplete |-> s.isComplete,
        passengersInAisle |-> entries(SelectSeq(ids, inAisle)),
        passengersSeated |-> entries(SelectSeq(ids, seated)),
        passengersWaiting |-> entries(SelectSeq(ids, waiting)),
        queueLength |-> Len(s.queue),
        seatedCount |-> Len(SelectSeq(ids, seated)),
        totalPassengers |-> Len(s.passengers)]

getSnapshot(s) ==
    LET ids == [i \in 1..Len(s.passengers) |-> i]
        seated(i) == s.passengerStates[i].state = SEATED
        waiting(i) == s.passengerStates[i].state = WAITING
        inAisle(i) == ~seated(i) /\ ~waiting(i)
        entry(i) ==
            [id |-> s.passengers[i].id, row |-> s.passengers[i].row,
             column |-> s.passengers[i].column,
             state |-> s.passengerStates[i].state,
             aisleRow |-> s.passengerStates[i].aisleRow,
             waitTime |-> s.passengerStates[i].waitTime]
        entries(sel) == [k \in 1..Len(sel) |-> entry(sel[k])]
    IN [step |-> s.currentStep,
        isComplete |-> s.isComplete,
        passengersInAisle |-> entries(SelectSeq(ids, inAisle)),
        passengersSeated |-> entries(SelectSeq(ids, seated)),
        passengersWaiting |-> entries(SelectSeq(ids, waiting)),
        queueLength |-> Len(s.queue),
        seatedCount |-> Len(SelectSeq(ids, seated)),
        totalPassengers |-> Len(s.passengers)]

\* the snapshot loop that pushes the snapshot of the last tick in the loop
\* and again after it
RECURSIVE runSteps_FinalTwice(_, _)
runSteps_FinalTwice(s, snapshots) ==
    LET s1 == step(s)
    IN IF s1.isComplete
       THEN [sim |-> s1,
             snapshots |-> Append(Append(snapshots, getSnapshot(s1)), getSnapshot(s1))]
       ELSE runSteps_FinalTwice(s1, Append(snapshots, getSnapshot(s1)))

\* while (this.simulation.step()) push(getSnapshot()); push(getSnapshot()):
\* every call of step is followed by one snapshot, the last after the loop
RECURSIVE runSteps(_, _)
runSteps(s, snapshots) ==
    LET s1 == step(s)
    IN IF s1.isComplete
       THEN [sim |-> s1, snapshots |-> Append(snapshots, getSnapshot(s1))]
       ELSE runSteps(s1, Append(snapshots, getSnapshot(s1)))

\* setSeed that leaves the generator as it is
setSeed_Keep(rng, seed) == rng

\* RandomGenerator.setSeed
setSeed(rng, seed) == [seed |-> seed, initialSeed |-> seed]

\* createAlgorithmContext
createAlgorithmContext(totalRows, totalPassengers) ==
    [totalRows |-> totalRows, totalPassengers |-> totalPassengers]

\* the baseline run of a modified algorithm, as far as it reaches the
\* application: it draws from this.rng; its aircraft, simulation and
\* metrics are its own
baselineRng(ap) ==
    LET rng0 == setSeed(ap.rng, ap.seedInput)
        gen == generatePassengers(rng0.seed, ap.passengerCountInput, defaultRows)
        pr == withPriorities(Preset(ap.selectedAlgorithm.id), gen.seed, gen.value, 1,
                             createAlgorithmContext(defaultRows, Len(gen.value)))
    IN [rng0 EXCEPT !.seed = pr.seed]

\* _executeSimulation from the generated passengers on: the simulation is
\* built on the reset aircraft, the priorities are computed and sorted, the
\* order is set and the steps are run, a snapshot taken after each
simulatePassengers(algorithm, ac, rng1, gen) ==
    LET sim == NewSimulation(gen.value, AircraftReset(ac))
        context == createAlgorithmContext(ac.rows, Len(gen.value))
        pr == withPriorities(algorithm, gen.seed, gen.value, 1, context)
        order == boardingOrder(pr.value)
        sim1 == setBoardingOrder(sim, order)
        run == runSteps(sim1, <<getSnapshot(sim1)>>)
    IN [rng |-> [rng1 EXCEPT !.seed = pr.seed],
        sim |-> run.sim,
        snapshots |-> run.snapshots,
        boardingOrder |-> order]

\* BoardingLab._executeSimulation on the application ap with aircraft ac
executeSimulation(ap, ac) ==
    LET rng0 == IF ap.selectedAlgorithm.isModified THEN baselineRng(ap) ELSE ap.rng
        rng1 == setSeed(rng0, ap.seedInput)
    IN simulatePassengers(ap.selectedAlgorithm, ac, rng1,
                          generatePassengers(rng1.seed, ap.passengerCountInput, ac.rows))

\* values of the seed field and of the passenger count slider
Seeds == {1, defaultSeed}
PassengerCountInputs == {MaxPassengers - 1, MaxPassengers}

\* the inputs of a run: seed, passenger count and selected algorithm
RunKey(ap) ==
    [seed |-> ap.seedInput, count |-> ap.passengerCountInput,
     algorithm |-> ap.selectedAlgorithm]

\* new BoardingLab(): default aircraft and generator, no passengers, no
\* simulation, the first preset selected; the inputs hold any of the values
AppInit ==
    \E seed \in Seeds, count \in PassengerCountInputs :
        /\ aircraft = NewAircraft(defaultRows, defaultBinCapacityPerRow)
        /\ passengers = <<>> /\ passengerStates = <<>> /\ queue = <<>>
        /\ currentStep = 0 /\ isComplete = FALSE /\ events = <<>>
        /\ orderedIds = <<>>
        /\ simB = NoSim /\ runner = NoRunner
        /\ app = [rng |-> [seed |-> defaultSeed, initialSeed |-> defaultSeed],
                  selectedAlgorithm |-> Preset(RandomPreset),
                  snapshots |-> <<>>,
                  seedInput |-> seed,
                  passengerCountInput |-> count,
                  validationMessages |-> ""]
        /\ reference = [first |-> NoRun, last |-> NoRun, runs |-> 0]
        /\ NoLib

\* the user edits the seed field
SetSeed ==
    /\ \E seed \in Seeds \ {app.seedInput} : app' = [app EXCEPT !.seedInput = seed]
    /\ UNCHANGED <<simVars, simB, runner, reference, libVars>>

\* the user moves the passenger count slider
SetPassengerCount ==
    /\ \E count \in PassengerCountInputs \ {app.passengerCountInput} :
         app' = [app EXCEPT !.passengerCountInput = count]
    /\ UNCHANGED <<simVars, simB, runner, reference, libVars>>

\* selectAlgorithm(algo) with a preset of algorithmList
SelectAlgorithm ==
    /\ \E id \in Presets :
         /\ app.selectedAlgorithm # Preset(id)
         /\ app' = [app EXCEPT !.selectedAlgorithm = Preset(id)]
    /\ UNCHANGED <<simVars, simB, runner, reference, libVars>>

\* applyCustomCode() with the code of the editor: the code is compiled and
\* tested on the sample passenger; a result that is no finite number is
\* reported, otherwise the modified algorithm is selected (and a run is
\* scheduled, which ExecuteSimulation performs)
ApplyCustomCode ==
    /\ \E code \in CustomCodes :
         LET testResult == evalCode(code, samplePassenger, sampleContext)
         IN app' = IF testResult = NaN
                   THEN [app EXCEPT !.validationMessages = "error"]
                   ELSE [app EXCEPT
                           !.selectedAlgorithm = Modified(app.selectedAlgorithm, code),
                           !.validationMessages = "valid"]
    /\ UNCHANGED <<simVars, simB, runner, reference, libVars>>

\* the fields _executeSimulation leaves on the application: passengers,
\* simulation, snapshots and the generator
RunResult(result) ==
    /\ SetSim(result.sim)
    /\ orderedIds' = result.boardingOrder
    /\ app' = [app EXCEPT !.rng = result.rng, !.snapshots = result.snapshots]
    /\ reference' =
         [first |-> IF reference.first = NoRun
                    THEN [key |-> RunKey(app),
                          events |-> result.sim.events,
                          ticks |-> result.sim.currentStep]
                    ELSE reference.first,
          last |-> RunKey(app),
          runs |-> IF reference.runs < 2 THEN reference.runs + 1 ELSE 2]
    /\ UNCHANGED <<simB, runner, libVars>>

\* runSimulation() -> _executeSimulation()
ExecuteSimulation == RunResult(executeSimulation(app, aircraft))

AppNext ==
    \/ SetSeed
    \/ SetPassengerCount
    \/ SelectAlgorithm
    \/ ApplyCustomCode
    \/ ExecuteSimulation

AppSpec == AppInit /\ [][AppNext]_vars

(***************************************************************************)
(* Simulation.runToCompletion on two simulations of the same passengers,   *)
(* one boarding in the reverse order of the other                          *)
(***************************************************************************)
\* the values of the maxSteps argument: short limits and the default
MaxStepsValues == 1..MaxTicks \cup {maxSteps}

\* the order reversed
Reverse(order) == [k \in 1..Len(order) |-> order[Len(order) + 1 - k]]

DriverInit ==
    \E rows \in 1..MaxRows :
      \E n \in PassengerCounts(rows) \ {0} :
        \E pl \in PassengerLists(rows, n) :
          /\ Construct(pl, rows, MaxBin)
          /\ simB = NewSimulation(pl, NewAircraft(rows, MaxBin))
          /\ runner = NoRunner /\ app = NoApp /\ reference = NoRun
          /\ driver = NoDriver /\ validation = NoValidation
          /\ optimizer = NoOptimizer /\ generator = NoGenerator

\* sim.setBoardingOrder(order) on both simulations
DriverSetBoardingOrder ==
    /\ currentStep = 0
    /\ orderedIds = <<>>
    /\ \E order \in BoardingOrders(Len(passengers)) :
         /\ SetSim(setBoardingOrder(Sim, order))
         /\ orderedIds' = order
         /\ simB' = setBoardingOrder(simB, Reverse(order))
    /\ UNCHANGED <<appVars, libVars>>

\* the two runs are over: what each call returned
Returned(max, run, runB) ==
    /\ SetSim(run.sim)
    /\ simB' = runB.sim
    /\ driver' = [called |-> TRUE, maxSteps |-> max,
                  steps |-> run.steps, stepsB |-> runB.steps]

\* sim.runToCompletion(max) on both simulations
RunToCompletion ==
    /\ OrderSet
    /\ ~driver.called
    /\ \E max \in MaxStepsValues :
         Returned(max, runToCompletion(Sim, max), runToCompletion(simB, max))
    /\ UNCHANGED <<orderedIds, appVars, validation, optimizer, generator>>

DriverNext == DriverSetBoardingOrder \/ RunToCompletion

DriverSpec == DriverInit /\ [][DriverNext]_vars

(***************************************************************************)
(* GeneticOptimizer                                                        *)
(***************************************************************************)
\* Math.random() returns draw / RandomGrain for a draw of Draws
Draws == 0..(RandomGrain - 1)

\* Math.floor(Math.random() * k)
floorRandom(draw, k) == (draw * k) \div RandomGrain

\* the algorithm objects given to the optimizer: the random preset (no
\* parameters), the zone-based preset, and the random preset with the
\* editor code "const rowWeight = 10; return passenger.row * rowWeight;",
\* whose constant applyCustomCode declares as a parameter from -100 to 100
ZoneBasedPreset == "zoneBased"
CodeRowWeight == "const rowWeight = 10; return passenger.row * rowWeight;"
Contracts ==
    {[id |-> RandomPreset, isModified |-> FALSE, code |-> "", parameters |-> <<>>],
     [id |-> ZoneBasedPreset, isModified |-> FALSE, code |-> "",
      parameters |-> <<[key |-> "numZones", type |-> "number", min |-> 2, max |-> 10]>>],
     [id |-> RandomPreset, isModified |-> TRUE, code |-> CodeRowWeight,
      parameters |-> <<[key |-> "rowWeight", type |-> "number",
                        min |-> 0 - 100, max |-> 100]>>]}

\* GeneticOptimizer.constructor: the parameters of type number
IsNumber(config) == config.type = "number"
paramConfig(algorithm) == SelectSeq(algorithm.parameters, IsNumber)

\* _randomValue(config)
randomValue(config, draw) ==
    floorRandom(draw, config.max - config.min + 1) + config.min

\* the individuals _initializePopulation can push
RandomIndividuals(config) ==
    {[k \in 1..Len(config) |-> randomValue(config[k], draws[k])] :
        draws \in [1..Len(config) -> Draws]}

\* the context {} of the fitness evaluation: no key is set
emptyContext == [totalRows |-> Absent, totalPassengers |-> Absent]

\* the zone-based priority that puts the front zones first
zoneBased_FrontFirst(numZones, p, context) ==
    IF context.totalRows = Absent THEN NaN
    ELSE LET zones == IF numZones = 0 THEN 5 ELSE numZones
             rowsPerZone == (context.totalRows + zones - 1) \div zones
             zone == (p.row - 1) \div rowsPerZone
         IN (zones - zone) * 1000 + p.row

\* the function zoneBasedAlgorithm.createPriorityFn({numZones}) returns,
\* applied to a passenger and a context: Math.ceil of undefined / numZones
\* is NaN, and so is everything computed from it
zoneBased(numZones, p, context) ==
    IF context.totalRows = Absent THEN NaN
    ELSE LET zones == IF numZones = 0 THEN 5 ELSE numZones
             rowsPerZone == (context.totalRows + zones - 1) \div zones
             zone == (p.row - 1) \div rowsPerZone
         IN zone * 1000 + p.row

\* priorityFn(p, context) of algorithm.createPriorityFn(weights) for the
\* contracts with a parameter: the editor code runs with its constant
\* replaced by the weight
contractPriority(algorithm, weights, p, context) ==
    IF algorithm.isModified THEN p.row * weights[1]
    ELSE zoneBased(weights[1], p, context)

\* priorityFn(p, {}) of algorithm.createPriorityFn(weights): the zone-based
\* function divides by context.totalRows, which {} does not have
priorityWith(algorithm, weights, p) ==
    contractPriority(algorithm, weights, p, emptyContext)

\* info = passengers.map(p => ({id, priority: priorityFn(p, {})}))
info(algorithm, weights, list) ==
    [i \in 1..Len(list) |->
        [id |-> list[i].id, priority |-> priorityWith(algorithm, weights, list[i])]]

\* one scenario of _evaluateFitness: a new Simulation on this.aircraft, the
\* order set, sim.runToCompletion(5000)
runScenario(algorithm, weights, list, ac) ==
    runToCompletion(setBoardingOrder(NewSimulation(list, ac),
                                     boardingOrder(info(algorithm, weights, list))),
                    5000)

\* totalTime and this.aircraft after one more scenario
addRun(acc, run) ==
    [totalTime |-> acc.totalTime + run.steps, aircraft |-> run.sim.aircraft]

\* the loop of _evaluateFitness from scenario k on
RECURSIVE runScenarios(_, _, _, _, _)
runScenarios(algorithm, weights, scenarios, k, acc) ==
    IF k > Len(scenarios) THEN acc
    ELSE runScenarios(algorithm, weights, scenarios, k + 1,
                      addRun(acc, runScenario(algorithm, weights, scenarios[k],
                                              acc.aircraft)))

\* _evaluateFitness(weights, testScenarios) with this.aircraft = ac. The
\* fitness totalTime / testScenarios.length is held as totalTime: the
\* number of scenarios is the same in every evaluation.
evaluateFitness(algorithm, weights, scenarios, ac) ==
    runScenarios(algorithm, weights, scenarios, 1, [totalTime |-> 0, aircraft |-> ac])

\* evaluatedPop.push({weights: individual, fitness}) and the aircraft left
pushEvaluated(acc, individual, evaluation) ==
    [pop |-> Append(acc.pop, [weights |-> individual,
                              fitness |-> evaluation.totalTime]),
     aircraft |-> evaluation.aircraft]

\* for (const individual of population) from individual i on
RECURSIVE evaluatePopulation(_, _, _, _, _)
evaluatePopulation(algorithm, population, scenarios, i, acc) ==
    IF i > Len(population) THEN acc
    ELSE evaluatePopulation(algorithm, population, scenarios, i + 1,
             pushEvaluated(acc, population[i],
                           evaluateFitness(algorithm, population[i], scenarios,
                                           acc.aircraft)))

\* evaluatedPop.sort((a, b) => a.fitness - b.fitness), a stable sort
RECURSIVE insertByFitness(_, _)
insertByFitness(x, sorted) ==
    IF sorted = <<>> THEN <<x>>
    ELSE IF Head(sorted).fitness - x.fitness <= 0
         THEN <<Head(sorted)>> \o insertByFitness(x, Tail(sorted))
         ELSE <<x>> \o sorted

RECURSIVE sortByFitness(_)
sortByFitness(list) ==
    IF list = <<>> THEN <<>>
    ELSE insertByFitness(list[Len(list)],
                         sortByFitness(SubSeq(list, 1, Len(list) - 1)))

\* no bestSolution yet
NoSolution == [fitness |-> Absent]

\* the update that keeps the best individual of the first generation
updateBest_First(bestSolution, evaluatedPop) ==
    IF bestSolution = NoSolution THEN evaluatedPop[1] ELSE bestSolution

\* the update that takes the last individual of the generation
updateBest_Last(bestSolution, evaluatedPop) == evaluatedPop[Len(evaluatedPop)]

\* if (!bestSolution || evaluatedPop[0].fitness < bestSolution.fitness)
updateBest(bestSolution, evaluatedPop) ==
    IF bestSolution = NoSolution \/ evaluatedPop[1].fitness < bestSolution.fitness
    THEN evaluatedPop[1]
    ELSE bestSolution

\* _tournamentSelect(evaluatedPop) for the three indices drawn
tournamentSelect(evaluatedPop, picks) ==
    LET first == evaluatedPop[picks[1] + 1]
        second == evaluatedPop[picks[2] + 1]
        third == evaluatedPop[picks[3] + 1]
        best2 == IF second.fitness < first.fitness THEN second ELSE first
    IN IF third.fitness < best2.fitness THEN third ELSE best2

\* the individuals a tournament can return
TournamentWinners(evaluatedPop) ==
    LET indices == {floorRandom(draw, Len(evaluatedPop)) : draw \in Draws}
    IN {tournamentSelect(evaluatedPop, picks) : picks \in [1..3 -> indices]}

\* _crossover(pA, pB): Math.random() < 0.5 takes the gene of pA
crossover(pA, pB, draws) ==
    [k \in 1..Len(pA) |-> IF 2 * draws[k] < RandomGrain THEN pA[k] ELSE pB[k]]

\* Math.max(min, Math.min(max, v))
clamp(config, v) ==
    IF v > config.max THEN (IF config.min > config.max THEN config.min ELSE config.max)
    ELSE IF v < config.min THEN config.min ELSE v

\* Math.round(individual[gene] + delta) for delta = r * (range * 0.2) -
\* range * 0.1 and r = draw / RandomGrain; Math.round(x) is floor(x + 0.5)
rounded(v, range, draw) ==
    v + ((2 * range * draw - range * RandomGrain + 5 * RandomGrain)
            \div (10 * RandomGrain))

\* _mutate without the clamp to [min, max]
mutate_Unclamped(config, individual, geneDraw, deltaDraw) ==
    LET gene == floorRandom(geneDraw, Len(config)) + 1
    IN [individual EXCEPT ![gene] =
           rounded(@, config[gene].max - config[gene].min, deltaDraw)]

\* _mutate(individual)
mutate(config, individual, geneDraw, deltaDraw) ==
    LET gene == floorRandom(geneDraw, Len(config)) + 1
    IN [individual EXCEPT ![gene] =
           clamp(config[gene],
                 rounded(@, config[gene].max - config[gene].min, deltaDraw))]

\* the children one pass of the while loop of _evolveNextGeneration can
\* push: a crossover of two tournament winners, mutated when
\* Math.random() < this.mutationRate (0.1)
Children(config, evaluatedPop) ==
    LET winners == TournamentWinners(evaluatedPop)
        crossed == {crossover(a.weights, b.weights, draws) :
                       a \in winners, b \in winners,
                       draws \in [1..Len(config) -> Draws]}
    IN {IF 10 * mutationDraw < RandomGrain
        THEN mutate(config, child, geneDraw, deltaDraw)
        ELSE child :
           child \in crossed, mutationDraw \in Draws,
           geneDraw \in Draws, deltaDraw \in Draws}

\* the populations _evolveNextGeneration(evaluatedPop) can return: copies of
\* the first elitismCount individuals, then children up to populationSize
NextGenerations(config, evaluatedPop) ==
    LET children == Children(config, evaluatedPop)
    IN {[k \in 1..populationSize |->
            IF k <= elitismCount THEN evaluatedPop[k].weights
            ELSE rest[k]] :
          rest \in [(elitismCount + 1)..populationSize -> children]}

\* the scenarios optimize generates before the loop: three passenger lists
\* from the seeds 12345, 12346, 12347 (114 passengers each in the code,
\* MaxPassengers here)
scenarioSeed == 12345
testScenarios(rows) ==
    [i \in 1..3 |-> generatePassengers(scenarioSeed + i - 1, MaxPassengers, rows).value]

\* this.aircraft of the application after a run: the passengers of a
\* completed simulation sit in it
UsedAircraft ==
    LET list == generatePassengers(defaultSeed, MaxPassengers, MaxRows).value
    IN runToCompletion(
           setBoardingOrder(
               NewSimulation(list, NewAircraft(MaxRows, MaxBin)),
               [i \in 1..Len(list) |-> list[i].id]),
           maxSteps).sim.aircraft

\* new GeneticOptimizer(this.aircraft, algorithm), optimize not yet called
OptimizerInit ==
    \E algorithm \in Contracts, onProgress \in BOOLEAN,
       ac \in {NewAircraft(MaxRows, MaxBin), UsedAircraft} :
        /\ aircraft = ac
        /\ passengers = <<>> /\ passengerStates = <<>> /\ queue = <<>>
        /\ currentStep = 0 /\ isComplete = FALSE /\ events = <<>>
        /\ orderedIds = <<>> /\ simB = NoSim
        /\ runner = NoRunner /\ app = NoApp /\ reference = NoRun
        /\ driver = NoDriver /\ validation = NoValidation
        /\ generator = NoGenerator
        /\ optimizer = [pc |-> "constructed", algorithm |-> algorithm,
                        paramConfig |-> paramConfig(algorithm),
                        onProgress |-> onProgress, testScenarios |-> <<>>,
                        population |-> <<>>, evaluatedPop |-> <<>>,
                        bestSolution |-> NoSolution, gen |-> 0, yields |-> 0,
                        fittest |-> {}, bestAfter |-> <<>>, result |-> <<>>]

\* a check that lets every contract through
noParameters_Never(config) == FALSE

\* Object.keys(this.paramConfig).length === 0
noParameters(config) == Len(config) = 0

\* optimize(onProgress) up to the loop: the check of paramConfig, the
\* initial population, the scenarios
Optimize ==
    /\ optimizer.pc = "constructed"
    /\ IF noParameters(optimizer.paramConfig)
       THEN optimizer' = [optimizer EXCEPT !.pc = "rejected"]
       ELSE \E population \in
                 [1..populationSize -> RandomIndividuals(optimizer.paramConfig)] :
              optimizer' = [optimizer EXCEPT
                              !.pc = "evaluate",
                              !.population = population,
                              !.testScenarios = testScenarios(aircraft.rows)]
    /\ UNCHANGED <<simVars, simB, appVars, driver, validation, generator>>

\* the individuals of least fitness among those evaluated
fittestOf(evaluated) ==
    {e \in evaluated : \A other \in evaluated : e.fitness <= other.fitness}

\* the loop body after the sort: bestSolution is updated and, with a
\* callback, progress is reported and the function waits for a timer
Sorted(evaluatedPop) ==
    optimizer' = [optimizer EXCEPT
                    !.pc = "evolve",
                    !.evaluatedPop = evaluatedPop,
                    !.bestSolution = updateBest(@, evaluatedPop),
                    !.yields = IF optimizer.onProgress THEN @ + 1 ELSE @,
                    !.fittest = fittestOf(@ \cup {evaluatedPop[k] :
                                                     k \in 1..Len(evaluatedPop)}),
                    !.bestAfter = Append(@, updateBest(optimizer.bestSolution,
                                                       evaluatedPop).fitness)]

\* the fitness runs are over: they leave their last state in this.aircraft
Evaluated(evaluation) ==
    /\ aircraft' = evaluation.aircraft
    /\ Sorted(sortByFitness(evaluation.pop))

\* one pass of the generation loop up to the report of progress
Evaluate ==
    /\ optimizer.pc = "evaluate"
    /\ optimizer.gen < generations
    /\ Evaluated(evaluatePopulation(optimizer.algorithm, optimizer.population,
                                    optimizer.testScenarios, 1,
                                    [pop |-> <<>>, aircraft |-> aircraft]))
    /\ UNCHANGED <<passengers, passengerStates, queue, currentStep, isComplete,
                   events, orderedIds, simB, appVars, driver, validation, generator>>

\* population = this._evolveNextGeneration(evaluatedPop), end of the pass;
\* after the last pass the loop is left and bestSolution.weights returned
Evolve ==
    /\ optimizer.pc = "evolve"
    /\ \E nextGen \in NextGenerations(optimizer.paramConfig, optimizer.evaluatedPop) :
         optimizer' =
            IF optimizer.gen + 1 < generations
            THEN [optimizer EXCEPT
                    !.pc = "evaluate", !.population = nextGen, !.gen = @ + 1]
            ELSE [optimizer EXCEPT
                    !.pc = "done", !.population = nextGen, !.gen = @ + 1,
                    !.result = optimizer.bestSolution.weights]
    /\ UNCHANGED <<simVars, simB, appVars, driver, validation, generator>>

OptimizerNext == Optimize \/ Evaluate \/ Evolve

OptimizerSpec == OptimizerInit /\ [][OptimizerNext]_vars

(***************************************************************************)
(* RandomGenerator: a generator and the calls made on it                   *)
(***************************************************************************)
\* RandomGenerator.reset that leaves the seed where the draws took it
rngReset_Keep(rng) == rng

\* RandomGenerator.reset
rngReset(rng) == [rng EXCEPT !.seed = rng.initialSeed]

\* the seeds given to the constructor and to setSeed
GeneratorSeeds == {0 - 1, 1, 2, defaultSeed, lcgM - 1}

\* the arguments of nextInt, min <= max, and the arrays given to pick
IntArguments == {<<0, 0>>, <<0, 5>>, <<0 - 2, 2>>, <<1, 179>>}
PickArrays == {<<"only">>, walkSpeeds}

\* the generator after a seed was supplied: no draw yet. `supplied` is the
\* seed last given, `first` the draws made after it up to the first reset
\* (and those later passes added beyond them), `current` the draws since
\* the last reset
Seeded(rng, seed) ==
    [seed |-> rng.seed, initialSeed |-> rng.initialSeed, supplied |-> seed,
     first |-> <<>>, current |-> <<>>, last |-> "seed",
     returned |-> [op |-> "none"]]

\* new RandomGenerator(seed)
RngInit ==
    \E seed \in GeneratorSeeds :
        /\ generator = Seeded([seed |-> seed, initialSeed |-> seed], seed)
        /\ aircraft = NewAircraft(1, 0)
        /\ passengers = <<>> /\ passengerStates = <<>> /\ queue = <<>>
        /\ currentStep = 0 /\ isComplete = FALSE /\ events = <<>>
        /\ orderedIds = <<>> /\ simB = NoSim
        /\ runner = NoRunner /\ app = NoApp /\ reference = NoRun
        /\ driver = NoDriver /\ validation = NoValidation
        /\ optimizer = NoOptimizer

\* the generator after one call of next() made by the call `returned`
Drawn(returned) ==
    /\ Len(generator.current) < MaxDraws
    /\ generator' =
         [generator EXCEPT
            !.seed = rngNext(@),
            !.current = Append(@, rngNext(generator.seed)),
            !.first = IF Len(generator.current) = Len(@)
                      THEN Append(@, rngNext(generator.seed)) ELSE @,
            !.last = "next",
            !.returned = returned]
    /\ UNCHANGED <<simVars, simB, appVars, driver, validation, optimizer>>

\* rng.next(): the value returned is seed / m, held as the numerator
RngNext == Drawn([op |-> "next", value |-> rngNext(generator.seed)])

\* rng.nextInt(min, max)
RngNextInt ==
    \E args \in IntArguments :
        Drawn([op |-> "nextInt", min |-> args[1], max |-> args[2],
               value |-> nextInt(generator.seed, args[1], args[2]).value])

\* rng.pick(array)
RngPick ==
    \E array \in PickArrays :
        Drawn([op |-> "pick", array |-> array,
               value |-> pick(generator.seed, array).value])

\* rng.reset()
RngReset ==
    /\ generator' =
         [generator EXCEPT
            !.seed = rngReset(generator).seed,
            !.initialSeed = rngReset(generator).initialSeed,
            !.current = <<>>,
            !.last = "reset",
            !.returned = [op |-> "none"]]
    /\ UNCHANGED <<simVars, simB, appVars, driver, validation, optimizer>>

\* rng.setSeed(seed)
RngSetSeed ==
    /\ \E seed \in GeneratorSeeds :
         generator' = Seeded(setSeed(generator, seed), seed)
    /\ UNCHANGED <<simVars, simB, appVars, driver, validation, optimizer>>

RngActions == RngNext \/ RngNextInt \/ RngPick \/ RngReset \/ RngSetSeed

RngSpec == RngInit /\ [][RngActions]_vars

(***************************************************************************)
(* generatePassengers on a generator of any seed                           *)
(***************************************************************************)
\* the counts asked for in a layout: none, one, two, one less than the
\* seats, every seat, one more than the seats
GenerateCounts(rows) ==
    {0, 1, 2, rows * Len(columns) - 1, rows * Len(columns), rows * Len(columns) + 1}

\* new RandomGenerator(seed), generatePassengers not yet called
GenerateInit ==
    \E seed \in GeneratorSeeds \cup {0} :
        /\ generator = [seed |-> seed, initialSeed |-> seed, calls |-> 0,
                        supplied |-> seed]
        /\ aircraft = NewAircraft(1, 0)
        /\ passengers = <<>> /\ passengerStates = <<>> /\ queue = <<>>
        /\ currentStep = 0 /\ isComplete = FALSE /\ events = <<>>
        /\ orderedIds = <<>> /\ simB = NoSim
        /\ runner = NoRunner /\ app = NoApp /\ reference = NoRun
        /\ driver = NoDriver /\ validation = NoValidation
        /\ optimizer = NoOptimizer

\* the generator and what the call returned
Generated(count, rows, result) ==
    generator' = [seed |-> result.seed, initialSeed |-> generator.initialSeed,
                  calls |-> generator.calls + 1, supplied |-> generator.supplied,
                  count |-> count, rows |-> rows,
                  thrown |-> result.thrown, passengers |-> result.value]

\* generatePassengers({count, rows, columns, rng}), at most twice on the
\* same generator
GeneratePassengers ==
    /\ generator.calls < 2
    /\ \E rows \in 1..MaxRows :
         \E count \in GenerateCounts(rows) :
            Generated(count, rows, generatePassengers(generator.seed, count, rows))
    /\ UNCHANGED <<simVars, simB, appVars, driver, validation, optimizer>>

GenerateNext == GeneratePassengers

GenerateSpec == GenerateInit /\ [][GenerateNext]_vars

(***************************************************************************)
(* getBlockingSeats on the occupancies of a row                            *)
(***************************************************************************)
\* the aircraft with the seats of the given columns of one row occupied and
\* the other rows empty or full
Occupied(rows, row, occupied, othersFull) ==
    [NewAircraft(rows, MaxBin) EXCEPT
        !.seats = [k \in (1..rows) \X ColumnSet |->
                      IF (k[1] = row /\ k[2] \in occupied) \/ (k[1] # row /\ othersFull)
                      THEN (k[1] - 1) * Len(columns) + ColumnIndex(k[2]) + 1
                      ELSE NoPassenger]]

\* an aircraft of any occupancy of one row, getBlockingSeats not yet called
BlockingInit ==
    /\ \E rows \in 1..MaxRows :
         \E row \in 1..rows, occupied \in SUBSET ColumnSet, othersFull \in BOOLEAN :
            aircraft = Occupied(rows, row, occupied, othersFull)
    /\ passengers = <<>> /\ passengerStates = <<>> /\ queue = <<>>
    /\ currentStep = 0 /\ isComplete = FALSE /\ events = <<>>
    /\ orderedIds = <<>> /\ simB = NoSim
    /\ runner = NoRunner /\ app = NoApp /\ reference = NoRun /\ NoLib

\* aircraft.getBlockingSeats(row, targetColumn)
GetBlockingSeats ==
    /\ \E row \in 1..aircraft.rows, targetColumn \in ColumnSet :
         driver' = [called |-> TRUE, row |-> row, targetColumn |-> targetColumn,
                    returned |-> getBlockingSeats(aircraft, row, targetColumn)]
    /\ UNCHANGED <<simVars, simB, appVars, validation, optimizer, generator>>

BlockingNext == GetBlockingSeats

BlockingSpec == BlockingInit /\ [][BlockingNext]_vars

(***************************************************************************)
(* The simulation with bins of MaxBin units, for the timing of a boarding  *)
(***************************************************************************)
TimingInit ==
    \E rows \in 1..MaxRows :
      \E n \in PassengerCounts(rows) :
        \E pl \in PassengerLists(rows, n) :
          /\ Construct(pl, rows, MaxBin)
          /\ simB = NoSim
          /\ runner = NoRunner /\ app = NoApp /\ reference = NoRun /\ NoLib

TimingNext == SetBoardingOrder \/ Step \/ Reset

TimingSpec == TimingInit /\ [][TimingNext]_vars

(***************************************************************************)
(* Calls of step and runToCompletion, before and after the completion      *)
(***************************************************************************)
\* calls made on the completed simulation that are followed
MaxCallsAfter == 2

\* what step() returns: false at once on a completed simulation, else
\* !this.isComplete after the tick
stepReturns(s) == IF s.isComplete THEN FALSE ELSE ~step(s).isComplete

\* the passenger lists without large carry-ons
LightPassengerLists(rows, n) ==
    {pl \in PassengerLists(rows, n) : \A i \in 1..n : pl[i].carryOnSize # "large"}

\* a new simulation of such passengers, no call made
CallsInit ==
    \E rows \in 1..MaxRows :
      \E n \in PassengerCounts(rows) :
        \E pl \in LightPassengerLists(rows, n) :
          /\ Construct(pl, rows, MaxBin)
          /\ simB = NoSim
          /\ runner = NoRunner /\ app = NoApp /\ reference = NoRun
          /\ driver = [called |-> FALSE, after |-> 0]
          /\ validation = NoValidation
          /\ optimizer = NoOptimizer /\ generator = NoGenerator

\* the call is over: what it returned, and how many calls the completed
\* simulation has had
Called(op, returned) ==
    driver' = [called |-> TRUE, op |-> op, returned |-> returned,
               after |-> IF isComplete THEN driver.after + 1 ELSE 0]

\* sim.step()
CallStep ==
    /\ OrderSet
    /\ driver.after < MaxCallsAfter
    /\ SetSim(step(Sim))
    /\ Called("step", stepReturns(Sim))
    /\ UNCHANGED <<orderedIds, simB, appVars, validation, optimizer, generator>>

\* sim.runToCompletion()
CallRunToCompletion ==
    /\ OrderSet
    /\ driver.after < MaxCallsAfter
    /\ SetSim(runToCompletion(Sim, maxSteps).sim)
    /\ Called("runToCompletion", runToCompletion(Sim, maxSteps).steps)
    /\ UNCHANGED <<orderedIds, simB, appVars, validation, optimizer, generator>>

CallsNext == SetBoardingOrder \/ CallStep \/ CallRunToCompletion

CallsSpec == CallsInit /\ [][CallsNext]_vars

(***************************************************************************)
(* A run, a reset, and the run again                                       *)
(***************************************************************************)
\* a new simulation with passengers, no run recorded
ReplayInit ==
    \E rows \in 1..MaxRows :
      \E n \in PassengerCounts(rows) \ {0} :
        \E pl \in LightPassengerLists(rows, n) :
          /\ Construct(pl, rows, MaxBin)
          /\ simB = NoSim
          /\ runner = NoRunner /\ app = NoApp /\ NoLib
          /\ reference = [reset |-> FALSE, order |-> <<>>, events |-> <<>>,
                          steps |-> 0, complete |-> FALSE]

\* sim.setBoardingOrder(order), before the first tick of a run: any order
\* for the first run, the order of the first run for the runs after it
ReplaySetBoardingOrder ==
    /\ currentStep = 0
    /\ orderedIds = <<>>
    /\ \E order \in BoardingOrders(Len(passengers)) :
         /\ reference.reset => order = reference.order
         /\ SetSim(setBoardingOrder(Sim, order))
         /\ orderedIds' = order
    /\ UNCHANGED <<simB, appVars, libVars>>

\* sim.reset(); the first run it ends is kept for the comparison
ReplayReset ==
    /\ SetSim(SimReset(Sim))
    /\ orderedIds' = <<>>
    /\ reference' = IF reference.reset \/ orderedIds = <<>> THEN reference
                    ELSE [reset |-> TRUE, order |-> orderedIds,
                          events |-> events, steps |-> currentStep,
                          complete |-> isComplete]
    /\ UNCHANGED <<simB, runner, app, libVars>>

\* sim.step(); a run made after the reset is followed up to the tick count
\* the first run had reached
ReplayStep ==
    /\ reference.reset => currentStep < reference.steps
    /\ Step

ReplayNext == ReplaySetBoardingOrder \/ ReplayStep \/ ReplayReset

ReplaySpec == ReplayInit /\ [][ReplayNext]_vars

(***************************************************************************)
(* Aircraft.useBinCapacity and Aircraft.findNearestBinCapacity             *)
(***************************************************************************)
\* rows of the layouts searched: enough for a row to have neighbours at
\* two distances on both sides
BinRows == MaxRows + 3

\* a new aircraft, no bin used, no search made
BinInit ==
    /\ \E rows \in 1..BinRows, cap \in {0, MaxBin, MaxBin + 1} :
         aircraft = NewAircraft(rows, cap)
    /\ passengers = <<>> /\ passengerStates = <<>> /\ queue = <<>>
    /\ currentStep = 0 /\ isComplete = FALSE /\ events = <<>>
    /\ orderedIds = <<>> /\ simB = NoSim
    /\ runner = NoRunner /\ app = NoApp /\ reference = NoRun /\ NoLib

\* aircraft.useBinCapacity(row, carryOnSize)
UseBinCapacity ==
    /\ ~driver.called
    /\ \E row \in 1..aircraft.rows, carryOnSize \in CarryOnSize :
         aircraft' = useBinCapacity(aircraft, row, carryOnSize)
    /\ UNCHANGED <<passengers, passengerStates, queue, currentStep, isComplete,
                   events, orderedIds, simB, appVars, libVars>>

\* aircraft.findNearestBinCapacity(startRow, carryOnSize), the one search
\* that is followed: the call, what it returned, and the bins before and
\* after it
FindNearestBinCapacity ==
    /\ ~driver.called
    /\ \E startRow \in 1..aircraft.rows, carryOnSize \in CarryOnSize :
         LET found == findNearestBinCapacity(aircraft, startRow, carryOnSize)
         IN /\ aircraft' = found.aircraft
            /\ driver' = [called |-> TRUE, startRow |-> startRow,
                          carryOnSize |-> carryOnSize, returned |-> found.row,
                          before |-> aircraft.binCapacity,
                          after |-> found.aircraft.binCapacity]
    /\ UNCHANGED <<passengers, passengerStates, queue, currentStep, isComplete,
                   events, orderedIds, simB, appVars, validation, optimizer,
                   generator>>

BinNext == UseBinCapacity \/ FindNearestBinCapacity

BinSpec == BinInit /\ [][BinNext]_vars

(***************************************************************************)
(* Two simulations of passengers with the same seats and carry-ons in the  *)
(* same boarding order, of other walk speeds, compliance and groups        *)
(***************************************************************************)
\* walkSpeed, compliance and groupId of a passenger: the defaults of the
\* Passenger constructor, and the other classes
Profiles ==
    <<[walkSpeed |-> "normal", compliance |-> "normal", groupId |-> null],
      [walkSpeed |-> "slow", compliance |-> "opportunistic", groupId |-> 1],
      [walkSpeed |-> "fast", compliance |-> "strict", groupId |-> 2]>>

\* the passenger with the attributes of a profile
withProfile(p, profile) ==
    [id |-> p.id, row |-> p.row, column |-> p.column,
     carryOnSize |-> p.carryOnSize, walkSpeed |-> profile.walkSpeed,
     compliance |-> profile.compliance, groupId |-> profile.groupId]

\* the list with the profiles dealt in turn from the k-th on
Dealt(pl, k) ==
    [i \in 1..Len(pl) |-> withProfile(pl[i], Profiles[((i + k) % Len(Profiles)) + 1])]

\* the passengers of the second simulation have other profiles than those
\* of the first
ProfileInit ==
    \E rows \in 1..MaxRows :
      \E n \in PassengerCounts(rows) \ {0} :
        \E pl \in LightPassengerLists(rows, n),
           k \in 1..Len(Profiles), kB \in 1..Len(Profiles) :
          /\ k < kB
          /\ Construct(Dealt(pl, k), rows, MaxBin)
          /\ simB = NewSimulation(Dealt(pl, kB), NewAircraft(rows, MaxBin))
          /\ runner = NoRunner /\ app = NoApp /\ reference = NoRun /\ NoLib

ProfileNext == PairSetBoardingOrder \/ PairStep

ProfileSpec == ProfileInit /\ [][ProfileNext]_vars

(***************************************************************************)
(* The boarding orders of the Zone-Based and the Back-to-Front preset      *)
(***************************************************************************)
\* the function backToFrontAlgorithm.createPriorityFn returns
backToFront(p, context) == p.row

\* the values of numZones the preset declares (min 2, max 10)
ZoneCounts == 2..10

\* the layouts: every number of rows up to ZoneRows, and the longest with
\* fewer than 1000 rows
ZoneRows == MaxRows + 6
Layouts == 1..ZoneRows \cup {999}

\* the rows passengers are taken from: all of a short layout; the ends, the
\* middle and two neighbours of the longest
RowsOf(totalRows) ==
    IF totalRows <= ZoneRows THEN 1..totalRows
    ELSE {1, 2, 500, 501, totalRows - 1, totalRows}

\* a layout, a number of zones and a passenger list, in any order of rows
ZoneInit ==
    /\ \E totalRows \in Layouts, numZones \in ZoneCounts, n \in 1..MaxPassengers :
         \E row \in [1..n -> RowsOf(totalRows)] :
           runner = [called |-> FALSE, numZones |-> numZones,
                     context |-> createAlgorithmContext(totalRows, n),
                     passengers |-> [i \in 1..n |-> [id |-> i, row |-> row[i]]],
                     zoneBased |-> <<>>, backToFront |-> <<>>]
    /\ NoSimulation
    /\ app = NoApp /\ reference = NoRun /\ NoLib

\* runAlgorithm with the priority function of either preset
RunPresets ==
    /\ ~runner.called
    /\ runner' = [runner EXCEPT
         !.called = TRUE,
         !.zoneBased =
            runAlgorithm([id \in 1..Len(runner.passengers) |->
                             zoneBased(runner.numZones, runner.passengers[id],
                                       runner.context)],
                         runner.passengers),
         !.backToFront =
            runAlgorithm([id \in 1..Len(runner.passengers) |->
                             backToFront(runner.passengers[id], runner.context)],
                         runner.passengers)]
    /\ UNCHANGED <<simVars, simB, app, reference, libVars>>

ZoneNext == RunPresets

ZoneSpec == ZoneInit /\ [][ZoneNext]_vars

(***************************************************************************)
(* Shorthands for the properties                                           *)
(***************************************************************************)
Ids == 1..Len(passengers)

InAisle(i) == InAisleState(passengerStates[i].state)

\* the tick of step(): the step counter advances
Tick == currentStep' = currentStep + 1

\* <<step, type, passengerId>> of every event
EventSummary(evs) ==
    [k \in 1..Len(evs) |-> <<evs[k].step, evs[k].type, evs[k].passengerId>>]

IsEnter(e) == e.type = ENTER

IsBinFull(e) == e.type = BIN_FULL

NotBinFull(e) == e.type # BIN_FULL

\* the passenger ids of the ENTER events, in log order
EnterIds(evs) ==
    LET en == SelectSeq(evs, IsEnter) IN [k \in 1..Len(en) |-> en[k].passengerId]

(***************************************************************************)
(* C1  Concrete scenario                                                   *)
(***************************************************************************)
Scenario ==
    /\ aircraft.rows = 1
    /\ passengers = <<[id |-> 1, row |-> 1, column |-> "A", carryOnSize |-> "none"],
                      [id |-> 2, row |-> 1, column |-> "D", carryOnSize |-> "none"]>>
    /\ orderedIds = <<1, 2>>

\* state and aisle cell of P1 and of P2 after each tick
ScenarioTrace ==
    <<  <<WALKING, 0, WAITING, -1>>,
        <<WALKING, 1, WALKING, 0>>,
        <<SEATING, 1, WALKING, 0>>,
        <<SEATED, 1, WALKING, 1>>,
        <<SEATED, 1, SEATING, 1>>,
        <<SEATED, 1, SEATED, 1>>  >>

ScenarioEvents ==
    <<  <<1, ENTER, 1>>,
        <<2, MOVE, 1>>, <<2, ENTER, 2>>,
        <<3, AISLE_BLOCKED, 2>>,
        <<4, SEAT, 1>>, <<4, MOVE, 2>>,
        <<6, SEAT, 2>>  >>

\* C1: in the scenario (one row, P1 at A, P2 at D, no carry-on, order
\* [P1, P2]) the ticks give exactly the stated trace: P1 admitted at tick 1,
\* P1 to cell 1 and P2 admitted at tick 2, P1 SEATING and P2 blocked at tick
\* 3, P1 seated at (1, A) and P2 to cell 1 at tick 4, P2 SEATING at tick 5,
\* P2 seated at (1, D) at tick 6, complete after exactly 6 ticks.
C1_ConcreteScenario ==
    Scenario =>
      /\ currentStep <= 6
      /\ isComplete <=> currentStep = 6
      /\ currentStep >= 1 =>
           /\ <<passengerStates[1].state, passengerStates[1].aisleRow,
                passengerStates[2].state, passengerStates[2].aisleRow>>
                = ScenarioTrace[currentStep]
           /\ EventSummary(events)
                = SelectSeq(ScenarioEvents, LAMBDA e : e[1] <= currentStep)
      /\ currentStep >= 4 => aircraft.seats[<<1, "A">>] = 1
      /\ currentStep < 4 => aircraft.seats[<<1, "A">>] = NoPassenger
      /\ currentStep = 6 => aircraft.seats[<<1, "D">>] = 2
      /\ currentStep < 6 => aircraft.seats[<<1, "D">>] = NoPassenger
      /\ passengerStates[1].waitTime = 0
      /\ passengerStates[2].waitTime = (IF currentStep >= 3 THEN 1 ELSE 0)

C1_Witness == Scenario /\ isComplete /\ currentStep = 6

(***************************************************************************)
(* C2  Occupancy invariant                                                 *)
(***************************************************************************)
\* C2: no aisle cell and no seat is referenced by the run-state of more than
\* one passenger: two passengers in the aisle are in different cells, two
\* seated passengers are in different seats, and every cell and seat of the
\* layout holds the one passenger that references it.
C2_Occupancy ==
    /\ \A i, j \in Ids :
         i # j =>
           /\ ~(/\ InAisle(i) /\ InAisle(j)
                /\ passengerStates[i].aisleRow = passengerStates[j].aisleRow)
           /\ ~(/\ passengerStates[i].state = SEATED
                /\ passengerStates[j].state = SEATED
                /\ passengers[i].row = passengers[j].row
                /\ passengers[i].column = passengers[j].column)
    /\ \A i \in Ids :
         /\ InAisle(i) => aircraft.aisle[passengerStates[i].aisleRow] = i
         /\ passengerStates[i].state = SEATED =>
              aircraft.seats[<<passengers[i].row, passengers[i].column>>] = i

\* two passengers in the aisle at once, one blocked behind the other
C2_Witness ==
    \E i, j \in Ids :
      /\ i # j /\ InAisle(i) /\ InAisle(j)
      /\ passengerStates[j].aisleRow + 1 = passengerStates[i].aisleRow
      /\ passengerStates[j].waitTime > 0

(***************************************************************************)
(* C5  Monotonic capacity                                                  *)
(***************************************************************************)
ResetStep == currentStep' = 0 /\ orderedIds' = <<>>

\* C5: the remaining bin capacity of every row is never negative, a step
\* other than a reset never increases it, and a hasBinCapacity /
\* useBinCapacity call made in any reachable state, for any row and size,
\* leaves every row within 0 and its capacity before the call.
C5_MonotonicCapacity ==
    /\ [](\A r \in 1..aircraft.rows :
            /\ aircraft.binCapacity[r] >= 0
            /\ \A size \in CarryOnSize, r2 \in 1..aircraft.rows :
                 LET after == useBinCapacity(aircraft, r2, size).binCapacity[r]
                 IN /\ after >= 0
                    /\ after <= aircraft.binCapacity[r]
                    /\ hasBinCapacity(aircraft, r2, size) \in BOOLEAN)
    /\ [][ResetStep \/ \A r \in 1..aircraft.rows :
                         aircraft'.binCapacity[r] <= aircraft.binCapacity[r]]_vars

\* a row whose bin was used, and a passenger whose carry-on found it full
C5_Witness ==
    /\ \E r \in 1..aircraft.rows :
         aircraft.binCapacity[r] < aircraft.binCapacityPerRow
    /\ \E k \in 1..Len(events) : events[k].type = BIN_FULL
    /\ isComplete

(***************************************************************************)
(* C9  Single entry point                                                  *)
(***************************************************************************)
Admitted(i) ==
    passengerStates[i].state = WAITING /\ passengerStates'[i].state = WALKING

\* C9: a tick admits at most one passenger; the admitted passenger is the
\* head of the queue, is placed in cell 0, and no other passenger is in cell
\* 0 after the tick; only a WAITING passenger becomes WALKING and none
\* becomes WAITING again; the ENTER events follow the boarding order.
C9_SingleEntry ==
    [][Tick =>
         /\ Cardinality({i \in Ids : Admitted(i)}) <= 1
         /\ \A i \in Ids :
              Admitted(i) =>
                /\ queue # <<>> /\ i = Head(queue) /\ queue' = Tail(queue)
                /\ aircraft'.aisle[0] = i
                /\ passengerStates'[i].aisleRow = 0
                /\ \A j \in Ids \ {i} :
                     ~(/\ InAisleState(passengerStates'[j].state)
                       /\ passengerStates'[j].aisleRow = 0)
         /\ \A i \in Ids :
              /\ passengerStates'[i].state = WAITING =>
                   passengerStates[i].state = WAITING
              /\ (passengerStates[i].state # WALKING
                  /\ passengerStates'[i].state = WALKING) => Admitted(i)
         /\ (queue' # queue) => \E i \in Ids : Admitted(i)
         /\ EnterIds(events') = SubSeq(orderedIds, 1, Len(EnterIds(events')))
         /\ Len(EnterIds(events')) + Len(queue') = Len(orderedIds)
    ]_vars

\* a passenger was admitted after waiting for cell 0 to be vacated
C9_Witness ==
    \E k \in 1..(Len(orderedIds) - 1) :
      /\ passengerStates[orderedIds[k + 1]].state # WAITING
      /\ passengerStates[orderedIds[k + 1]].enteredAt
           > passengerStates[orderedIds[k]].enteredAt + 1

(***************************************************************************)
(* C3  Order-to-completion                                                 *)
(***************************************************************************)
StateRank(st) ==
    CASE st = WAITING -> 5 [] st = WALKING -> 4 [] st = STOWING -> 3
      [] st = SHUFFLING -> 2 [] st = SEATING -> 1 [] OTHER -> 0

\* work a passenger still has to do; a blocked tick leaves it unchanged
Work(s, i) ==
    LET ps == s.passengerStates[i]
    IN 100 * StateRank(ps.state)
         + (IF ps.state \in {WAITING, WALKING}
            THEN s.passengers[i].row - ps.aisleRow ELSE 0)
         + ps.stowRemaining + ps.shuffleRemaining

RECURSIVE SumWork(_, _)
SumWork(s, n) == IF n = 0 THEN 0 ELSE Work(s, n) + SumWork(s, n - 1)

TotalWork(s) == SumWork(s, Len(s.passengers))

\* ticks a passenger needs at most when nothing is in its way
TickBound == 1 + Len(passengers) * (aircraft.rows + 16)

\* C3: once the order is set, every tick of a run that is not complete
\* reduces the work that remains (so no state is a deadlock and the run
\* ends), the run is complete as soon as no work remains, which is when
\* every passenger is SEATED, and that happens within TickBound ticks
\* (8281 for 180 passengers in 30 rows), below maxSteps.
C3_OrderToCompletion ==
    /\ currentStep <= TickBound
    /\ currentStep < maxSteps
    /\ (OrderSet /\ ~isComplete /\ Len(passengers) > 0) =>
         TotalWork(step(Sim)) < TotalWork(Sim)
    /\ (OrderSet /\ currentStep >= 1 /\ TotalWork(Sim) = 0) => isComplete
    /\ isComplete <=>
         (currentStep >= 1 /\ \A i \in Ids : passengerStates[i].state = SEATED)

\* a complete run in which a passenger was blocked and one had to shuffle
C3_Witness ==
    /\ isComplete
    /\ Len(passengers) >= 2
    /\ \E k \in 1..Len(events) : events[k].type = AISLE_BLOCKED
    /\ \E k \in 1..Len(events) : events[k].type = SHUFFLE_START

PriorityOf(id) == runner.priorityFn[id]

\* C7: for a list of distinct ids and finite priorities, runAlgorithm returns
\* every id of the list exactly once, ordered by priority from the highest
\* to the lowest.
C7_DescendingPermutation ==
    runner.called =>
        LET list == runner.passengers
            r == runner.result
        IN /\ Len(r) = Len(list)
           /\ \A k \in 1..Len(list) :
                Cardinality({j \in 1..Len(r) : r[j] = list[k].id}) = 1
           /\ \A i, j \in 1..Len(r) :
                i < j => PriorityOf(r[i]) >= PriorityOf(r[j])

C7_Witness ==
    /\ runner.called
    /\ Len(runner.result) = 3
    /\ runner.result # [k \in 1..3 |-> runner.passengers[k].id]
    /\ PriorityOf(runner.result[1]) > PriorityOf(runner.result[2])
    /\ PriorityOf(runner.result[2]) = PriorityOf(runner.result[3])

\* C8: among passengers of equal priority the smaller id comes earlier in
\* the order runAlgorithm returns, whatever the order of the list.
C8_TieBreakById ==
    runner.called =>
        \A i, j \in 1..Len(runner.result) :
            (i < j /\ PriorityOf(runner.result[i]) = PriorityOf(runner.result[j]))
                => runner.result[i] < runner.result[j]

\* the run that produced the present simulation had the inputs of the first
SameAsFirstRun ==
    /\ reference.first # NoRun
    /\ reference.last = reference.first.key

\* the in-aisle entries of a snapshot stand in pairwise distinct cells
DistinctCells(snapshot) ==
    \A i, j \in 1..Len(snapshot.passengersInAisle) :
        i # j => snapshot.passengersInAisle[i].aisleRow
                 # snapshot.passengersInAisle[j].aisleRow

\* C4: a run of the application with the seed, passenger count and
\* algorithm of its first run has the event log and the tick count of the
\* first run, whatever was run in between; and in every snapshot of a run
\* the passengers in the aisle stand in distinct cells, so the order in
\* which a tick processes them is total.
C4_Determinism ==
    /\ SameAsFirstRun =>
           /\ events = reference.first.events
           /\ currentStep = reference.first.ticks
    /\ \A k \in 1..Len(app.snapshots) : DistinctCells(app.snapshots[k])

C4_Witness ==
    /\ SameAsFirstRun
    /\ reference.runs = 2
    /\ app.rng.initialSeed = app.seedInput
    /\ app.selectedAlgorithm = Preset(RandomPreset)
    /\ isComplete
    /\ Len(passengers) = MaxPassengers
    /\ \E k \in 1..Len(app.snapshots) :
          Len(app.snapshots[k].passengersInAisle) >= 2

\* C6: every run of a simulation uses a priority function that
\* validateAlgorithm accepts on the passengers of the run; a function that
\* returns NaN for one of them starts no run.
C6_BlockedNeverRuns ==
    reference.last # NoRun =>
        validateAlgorithm(reference.last.algorithm, app.rng.seed, passengers,
                          createAlgorithmContext(aircraft.rows, Len(passengers)))


(***************************************************************************)
(* C11  Non-termination guard                                              *)
(***************************************************************************)
\* C11: a call of runToCompletion performs no tick beyond maxSteps, and when
\* it stops at maxSteps with a passenger not SEATED, what it returns differs
\* from what a call with the same maxSteps returns for a run that completed.
C11_TruncationReported ==
    driver.called =>
        /\ currentStep <= driver.maxSteps
        /\ simB.currentStep <= driver.maxSteps
        /\ (isComplete # simB.isComplete) => driver.steps # driver.stepsB

(***************************************************************************)
(* C12  Runtime faults stay at the validation boundary                     *)
(***************************************************************************)
\* C12: whatever the priority function does in any of its calls, in the
\* sampling pass or in the determinism pass, validateAlgorithm returns a
\* ValidationResult and no exception leaves it; a function whose first call
\* throws gets a failed result.
C12_FaultsCaught ==
    validation.called =>
        /\ ~validation.result.thrown
        /\ (validation.testPassengers > 0 /\ validation.priorityFn[1] = Throws)
              => ~validation.result.isValid

(***************************************************************************)
(* C13  Optimizer monotonicity                                             *)
(***************************************************************************)
\* C13: the best fitness tracked by optimize after generation g + 1 is never
\* higher than the one tracked after generation g, for every contract with
\* a numeric parameter and every outcome of the random choices.
C13_BestNeverWorse ==
    \A g \in 1..(Len(optimizer.bestAfter) - 1) :
        optimizer.bestAfter[g + 1] <= optimizer.bestAfter[g]

\* a later generation improved the tracked best
C13_Improved ==
    /\ Len(optimizer.bestAfter) >= 2
    /\ optimizer.bestAfter[2] < optimizer.bestAfter[1]

(***************************************************************************)
(* C14  Optimizer result                                                   *)
(***************************************************************************)
\* C14: after the last generation optimize returns the weights of an
\* individual that was evaluated during the run, as they were when it was
\* evaluated, and its fitness is the minimum over all evaluations of all
\* generations.
C14_ReturnsBestOfRun ==
    optimizer.pc = "done" =>
        /\ optimizer.gen = generations
        /\ \E e \in optimizer.fittest : e.weights = optimizer.result

\* optimize has returned the weights of an individual that first appeared as
\* a child: it is better than every individual of the first generation
C14_ReturnedChild ==
    /\ optimizer.pc = "done"
    /\ optimizer.result # <<>>
    /\ optimizer.bestAfter[Len(optimizer.bestAfter)] < optimizer.bestAfter[1]

(***************************************************************************)
(* C15  Genome bounds                                                      *)
(***************************************************************************)
\* C15: in every generation every gene of every individual lies within the
\* declared [min, max] of its parameter, and the population holds exactly
\* populationSize individuals.
C15_GenesWithinBounds ==
    optimizer.pc \in {"evaluate", "evolve", "done"} =>
        /\ Len(optimizer.population) = populationSize
        /\ \A i \in 1..Len(optimizer.population) :
             /\ Len(optimizer.population[i]) = Len(optimizer.paramConfig)
             /\ \A k \in 1..Len(optimizer.paramConfig) :
                  /\ optimizer.population[i][k] >= optimizer.paramConfig[k].min
                  /\ optimizer.population[i][k] <= optimizer.paramConfig[k].max

\* a later generation holds, after its elites, a child at the lower limit of
\* its parameter, and no elite is at that limit
C15_ChildAtLimit ==
    /\ optimizer.pc \in {"evaluate", "done"}
    /\ optimizer.gen >= 1
    /\ \E i \in (elitismCount + 1)..Len(optimizer.population) :
         optimizer.population[i][1] = optimizer.paramConfig[1].min
    /\ \A k \in 1..elitismCount :
         optimizer.population[k][1] > optimizer.paramConfig[1].min

(***************************************************************************)
(* C16  Optimizer precondition                                             *)
(***************************************************************************)
\* C16: optimize called for a contract without a numeric parameter is
\* rejected at once: no population is built, no scenario is generated and
\* no fitness simulation is run, before or after the rejection.
C16_RejectedAtOnce ==
    Len(optimizer.paramConfig) = 0 /\ optimizer.pc # "none" =>
        /\ optimizer.pc \in {"constructed", "rejected"}
        /\ optimizer.population = <<>>
        /\ optimizer.testScenarios = <<>>
        /\ optimizer.fittest = {}
        /\ optimizer.evaluatedPop = <<>>
        /\ optimizer.bestSolution = NoSolution
        /\ aircraft \in {NewAircraft(MaxRows, MaxBin), UsedAircraft}

\* optimize has thrown for the random preset
C16_Rejected ==
    /\ optimizer.pc = "rejected"
    /\ optimizer.algorithm.id = RandomPreset
    /\ optimizer.algorithm.parameters = <<>>

C18_YieldsBetweenGenerations ==
    optimizer.pc \in {"evaluate", "evolve", "done"} =>
        optimizer.yields >= optimizer.gen

(***************************************************************************)
(* C19  Prefilter on the editing path                                      *)
(***************************************************************************)
\* C19: code of the editor that contains a forbidden construct is rejected
\* by applyCustomCode: it never becomes the code of the selected algorithm
\* (which is compiled and executed on the sample passenger before it is
\* selected) and no simulation is run with it.
C19_ForbiddenCodeRejected ==
    app # NoApp =>
        /\ ~(app.selectedAlgorithm.isModified /\ forbidden(app.selectedAlgorithm.code))
        /\ reference.last # NoRun =>
             ~(reference.last.algorithm.isModified
               /\ forbidden(reference.last.algorithm.code))

(***************************************************************************)
(* C20  RNG reproducibility                                                *)
(***************************************************************************)
\* C20: the first draw of a generator seeded with 12345 is 595905495 / m;
\* after reset() the state is the seed last supplied (to the constructor or
\* to setSeed), and the draws made after a reset repeat the draws made
\* after the seed was supplied.
C20_Reproducible ==
    generator # NoGenerator =>
        /\ generator.initialSeed = generator.supplied
        /\ generator.last = "reset" => generator.seed = generator.supplied
        /\ (generator.supplied = 12345 /\ Len(generator.first) >= 1)
              => generator.first[1] = 595905495
        /\ \A k \in 1..Len(generator.current) :
              generator.current[k] = generator.first[k]

\* a generator seeded with 12345 has drawn, was reset and has drawn again
C20_DrawnAgain ==
    /\ generator # NoGenerator
    /\ generator.supplied = 12345
    /\ Len(generator.first) = 2
    /\ Len(generator.current) = 1
    /\ generator.current[1] = 595905495
    /\ generator.seed # generator.supplied

(***************************************************************************)
(* C21  RNG range                                                          *)
(***************************************************************************)
\* C21: for every integer seed given to the constructor or to setSeed, every
\* draw of next() lies in [0, 1) (its numerator in 0..m-1), nextInt(min, max)
\* returns an integer of min..max, and pick returns an element of its array.
C21_DrawsInRange ==
    generator # NoGenerator =>
        /\ \A k \in 1..Len(generator.current) :
             generator.current[k] >= 0 /\ generator.current[k] < lcgM
        /\ generator.returned.op = "nextInt" =>
             /\ generator.returned.value >= generator.returned.min
             /\ generator.returned.value <= generator.returned.max
        /\ generator.returned.op = "pick" =>
             \E k \in DOMAIN generator.returned.array :
                 generator.returned.value = generator.returned.array[k]

(***************************************************************************)
(* C22  Passenger generation                                               *)
(***************************************************************************)
\* C22: for every seed and a count not larger than the number of seats,
\* generatePassengers returns exactly count passengers with ids 1..count in
\* list order, each in a seat of the layout, no two in the same seat.
C22_GeneratedPassengers ==
    (generator # NoGenerator /\ generator.calls > 0
     /\ generator.count <= generator.rows * Len(columns)) =>
        /\ ~generator.thrown
        /\ Len(generator.passengers) = generator.count
        /\ \A i \in 1..Len(generator.passengers) :
             /\ generator.passengers[i].id = i
             /\ generator.passengers[i].row \in 1..generator.rows
             /\ generator.passengers[i].column \in ColumnSet
        /\ \A i, j \in 1..Len(generator.passengers) :
             (i # j) =>
                 <<generator.passengers[i].row, generator.passengers[i].column>>
                 # <<generator.passengers[j].row, generator.passengers[j].column>>

(***************************************************************************)
(* C23  Snapshot sequence                                                  *)
(***************************************************************************)
\* C23: the snapshots of a run of the application that completed in T ticks
\* are T + 1 in number, the k-th taken at step k - 1 (the initial snapshot,
\* then one per tick in increasing order), with as many seated passengers as
\* the run has seated by then never decreasing, and the completion flag set
\* in the last one only, where every passenger is seated.
C23_SnapshotSequence ==
    (app # NoApp /\ app.snapshots # <<>>) =>
        /\ isComplete
        /\ Len(app.snapshots) = currentStep + 1
        /\ \A k \in 1..Len(app.snapshots) :
             /\ app.snapshots[k].step = k - 1
             /\ app.snapshots[k].isComplete <=> (k = Len(app.snapshots))
             /\ k > 1 => app.snapshots[k].seatedCount >= app.snapshots[k - 1].seatedCount
        /\ app.snapshots[1].seatedCount = 0
        /\ app.snapshots[Len(app.snapshots)].seatedCount = Len(passengers)

\* a run of more than three ticks has been recorded
C23_Recorded ==
    /\ app # NoApp
    /\ Len(app.snapshots) > 4
    /\ isComplete
    /\ app.snapshots[Len(app.snapshots)].isComplete

(***************************************************************************)
(* C24  Passenger state machine                                            *)
(***************************************************************************)
\* the events a tick records for passenger i
EventsOfTick(i) ==
    {k \in (Len(events) + 1)..Len(events') : events'[k].passengerId = passengers[i].id}

\* the change of passenger i's state in a tick is none or one edge; a
\* change that would take two edges in one tick is none of them: with a
\* carry-on WALKING is left for STOWING only, without one never for STOWING
StateEdge(i) ==
    LET from == passengerStates[i].state
        to == passengerStates'[i].state
        carryOn == passengers[i].carryOnSize # "none"
    IN \/ to = from
       \/ /\ from = WAITING /\ to = WALKING
          /\ passengerStates'[i].aisleRow = 0
          /\ \A k \in EventsOfTick(i) : events'[k].type = ENTER
       \/ from = WALKING /\ to = STOWING /\ carryOn
       \/ from = WALKING /\ to \in {SHUFFLING, SEATING} /\ ~carryOn
       \/ from = STOWING /\ to \in {SHUFFLING, SEATING}
       \/ from = SHUFFLING /\ to = SEATING
       \/ from = SEATING /\ to = SEATED

\* C24: in a tick every passenger's state stays or moves along one of the
\* edges WAITING -> WALKING, WALKING -> STOWING | SHUFFLING | SEATING,
\* STOWING -> SHUFFLING | SEATING, SHUFFLING -> SEATING, SEATING -> SEATED,
\* one edge at most; SEATED is never left; a passenger admitted in the tick
\* stands in cell 0 with no event but ENTER.
C24_StateMachine == [][Tick => \A i \in Ids : StateEdge(i)]_vars

\* a run in which every edge kind was taken: a passenger stowed, a
\* passenger shuffled, a passenger without carry-on was seated
C24_EdgesTaken ==
    /\ isComplete
    /\ \E k \in 1..Len(events) : events[k].type = STOW_END
    /\ \E k \in 1..Len(events) : events[k].type = SHUFFLE_END
    /\ \E i \in Ids : passengers[i].carryOnSize = "none"

(***************************************************************************)
(* C25  Same-tick cell hand-over                                           *)
(***************************************************************************)
\* passenger j stands in the aisle and leaves its cell in the tick: it
\* moves forward or is seated
LeavesCell(j) ==
    /\ InAisle(j)
    /\ \/ passengerStates'[j].aisleRow # passengerStates[j].aisleRow
       \/ passengerStates'[j].state = SEATED

\* C25: in a tick, when the passenger in cell c + 1 leaves that cell, a
\* WALKING passenger in cell c with a target row beyond c stands in cell
\* c + 1 after the tick; and when the passenger in cell 0 leaves it and the
\* queue is not empty, the head of the queue is admitted to cell 0 in the
\* tick.
C25_HandOver ==
    [][Tick =>
        /\ \A i, j \in Ids :
             (/\ InAisle(i) /\ passengerStates[i].state = WALKING
              /\ passengers[i].row > passengerStates[i].aisleRow
              /\ passengerStates[j].aisleRow = passengerStates[i].aisleRow + 1
              /\ LeavesCell(j))
             => /\ passengerStates'[i].aisleRow = passengerStates[i].aisleRow + 1
                /\ aircraft'.aisle[passengerStates[i].aisleRow + 1] = passengers[i].id
        /\ \A j \in Ids :
             (passengerStates[j].aisleRow = 0 /\ LeavesCell(j) /\ queue # <<>>)
             => /\ queue' = Tail(queue)
                /\ passengerStates'[Head(queue)].state = WALKING
                /\ passengerStates'[Head(queue)].aisleRow = 0
                /\ aircraft'.aisle[0] = passengers[Head(queue)].id]_vars

\* a tick in which cell 1 was left, the passenger of cell 0 moved into it
\* and the next passenger was admitted
C25_HandedOver ==
    \E k, l, e \in 1..Len(events) :
        /\ k < l /\ l < e
        /\ events[k].step = events[l].step /\ events[l].step = events[e].step
        /\ \/ events[k].type = MOVE /\ events[k].from = 1
           \/ events[k].type = SEAT /\ events[k].row = 1
        /\ events[l].type = MOVE /\ events[l].from = 0
        /\ events[e].type = ENTER

(***************************************************************************)
(* C26  Stow duration                                                      *)
(***************************************************************************)
\* the events recorded for passenger i, in log order
OwnEvents(i) ==
    LET own(e) == e.passengerId = passengers[i].id
    IN SelectSeq(events, own)

\* the steps of the events of a type among the events evs
Steps(evs, type) ==
    {evs[k].step : k \in {n \in 1..Len(evs) : evs[n].type = type}}

\* the steps of the events of a type recorded for passenger i
StepsOf(i, type) == Steps(OwnEvents(i), type)

\* the steps at which the passenger of the events evs moved into the cell
\* of the row
Arrivals(evs, row) ==
    {evs[k].step : k \in {n \in 1..Len(evs) : evs[n].type = MOVE /\ evs[n].to = row}}

\* C26: a passenger with a carry-on starts stowing on the tick after
\* arriving at its row, is STOWING until STOW_TIMES ticks later (3 for
\* small, 8 for large) and ends the stowing on exactly that tick; a
\* passenger without carry-on never stows and has left WALKING, for
\* SHUFFLING or SEATING, on the tick after arriving at its row.
C26_StowDuration ==
    \A i \in Ids :
        LET size == passengers[i].carryOnSize
            own == OwnEvents(i)
            started == Steps(own, STOW_START)
            ended == Steps(own, STOW_END)
            arrived == Arrivals(own, passengers[i].row)
            state == passengerStates[i].state
        IN IF size = "none"
           THEN /\ started = {} /\ ended = {} /\ state # STOWING
                /\ \A t \in arrived :
                     /\ currentStep = t => state = WALKING
                     /\ currentStep > t => state \in {SHUFFLING, SEATING, SEATED}
                     /\ Steps(own, SHUFFLE_START) \subseteq {t + 1}
                     /\ Steps(own, SHUFFLE_START) = {} => Steps(own, SEAT) \subseteq {t + 2}
           ELSE /\ started \subseteq {t + 1 : t \in arrived}
                /\ \A t \in arrived : currentStep > t => started = {t + 1}
                /\ \A t \in started :
                     /\ ended \subseteq {t + STOW_TIMES[size]}
                     /\ currentStep < t + STOW_TIMES[size] => state = STOWING
                     /\ currentStep >= t + STOW_TIMES[size] =>
                            ended = {t + STOW_TIMES[size]} /\ state # STOWING
                /\ state = STOWING => started # {}

\* a run in which a small and a large carry-on were stowed to the end and a
\* passenger without carry-on was seated
C26_Stowed ==
    /\ \E i \in Ids : passengers[i].carryOnSize = "small" /\ StepsOf(i, STOW_END) # {}
    /\ \E i \in Ids : passengers[i].carryOnSize = "large" /\ StepsOf(i, STOW_END) # {}
    /\ \E i \in Ids : passengers[i].carryOnSize = "none" /\ StepsOf(i, SEAT) # {}

(***************************************************************************)
(* C27  Seating eligibility                                                *)
(***************************************************************************)
\* column other lies strictly between the aisle and the target column, on
\* the target's side
Between(target, other) ==
    IF ColumnIndex(target) < aislePosition
    THEN ColumnIndex(other) > ColumnIndex(target) /\ ColumnIndex(other) < aislePosition
    ELSE ColumnIndex(other) >= aislePosition /\ ColumnIndex(other) < ColumnIndex(target)

\* the passengers seated before tick t (seatedAt is the tick of the SEAT
\* event) in a seat between the aisle and the seat of passenger i
BlockersAt(i, t) ==
    {j \in Ids : /\ passengers[j].row = passengers[i].row
                 /\ passengerStates[j].seatedAt \in 1..(t - 1)
                 /\ Between(passengers[i].column, passengers[j].column)}

\* the ticks of the eligibility check of the passenger of the events evs:
\* the tick after arriving at the row without carry-on, the tick the
\* stowing ends with one
Checks(evs, p) ==
    IF p.carryOnSize = "none"
    THEN {t + 1 : t \in {a \in Arrivals(evs, p.row) : a < currentStep}}
    ELSE Steps(evs, STOW_END)

ChecksOf(i) == Checks(OwnEvents(i), passengers[i])

\* the blocking lists of the SHUFFLE_START events at step t among evs
Blocking(evs, t) ==
    {evs[k].blocking : k \in {n \in 1..Len(evs) :
        evs[n].type = SHUFFLE_START /\ evs[n].step = t}}

\* C27: at the eligibility check at tick c, with n seats between the aisle
\* and the passenger's seat occupied at that moment: for n = 0 the
\* passenger is SEATING after tick c and SEATED after tick c + 1, never
\* SHUFFLING; for n > 0 it is SHUFFLING from tick c with 3n ticks to go,
\* counting down by one a tick whatever is seated meanwhile, SEATING after
\* tick c + 3n and SEATED after tick c + 3n + 1.
C27_SeatingEligibility ==
    \A i \in Ids :
        LET own == OwnEvents(i)
            checks == Checks(own, passengers[i])
            ps == passengerStates[i]
        IN /\ \A c \in checks :
                LET n == Cardinality(BlockersAt(i, c))
                IN /\ Steps(own, SHUFFLE_START) = (IF n = 0 THEN {} ELSE {c})
                   /\ \A b \in Blocking(own, c) : Len(b) = n
                   /\ n > 0 => Blocking(own, c) # {}
                   /\ currentStep < c + 3 * n =>
                          /\ ps.state = SHUFFLING
                          /\ ps.shuffleRemaining = c + 3 * n - currentStep
                          /\ Steps(own, SHUFFLE_END) = {}
                   /\ currentStep >= c + 3 * n =>
                          Steps(own, SHUFFLE_END) = (IF n = 0 THEN {} ELSE {c + 3 * n})
                   /\ currentStep = c + 3 * n =>
                          ps.state = SEATING /\ Steps(own, SEAT) = {}
                   /\ currentStep > c + 3 * n =>
                          /\ ps.state = SEATED /\ ps.seatedAt = c + 3 * n + 1
                          /\ Steps(own, SEAT) = {c + 3 * n + 1}
           /\ ps.state \in {SHUFFLING, SEATING, SEATED} => checks # {}

\* a run in which a passenger was seated directly, one shuffled past one
\* seat and one past two
C27_Shuffled ==
    /\ isComplete
    /\ \E i \in Ids : StepsOf(i, SHUFFLE_START) = {} /\ StepsOf(i, SEAT) # {}
    /\ \E i \in Ids : \E c \in ChecksOf(i) : Cardinality(BlockersAt(i, c)) = 1
    /\ \E i \in Ids : \E c \in ChecksOf(i) : Cardinality(BlockersAt(i, c)) = 2

(***************************************************************************)
(* C28  Blocking seats                                                     *)
(***************************************************************************)
\* C28: getBlockingSeats(row, target) returns each occupied column of the
\* row that lies strictly between the aisle and the target on the target's
\* side, once, and nothing else (not the target, no column of the other
\* side), the nearer to the aisle the earlier; for a target next to the
\* aisle it returns the empty list.
C28_BlockingSeats ==
    driver.called =>
        LET target == driver.targetColumn
            returned == driver.returned
            left == ColumnIndex(target) < aislePosition
        IN /\ {returned[k] : k \in 1..Len(returned)} =
                  {c \in ColumnSet : /\ Between(target, c)
                                     /\ isSeatOccupied(aircraft, driver.row, c)}
           /\ \A k, l \in 1..Len(returned) :
                k < l => IF left
                         THEN ColumnIndex(returned[k]) > ColumnIndex(returned[l])
                         ELSE ColumnIndex(returned[k]) < ColumnIndex(returned[l])
           /\ \A k \in 1..Len(returned) :
                /\ returned[k] # target
                /\ (ColumnIndex(returned[k]) < aislePosition) = left
           /\ ColumnIndex(target) \in {aislePosition - 1, aislePosition} =>
                  returned = <<>>

\* a call for an occupied window seat behind two occupied seats, the seats
\* of the other side occupied as well
C28_TwoBlocking ==
    /\ driver.called
    /\ Len(driver.returned) = 2
    /\ isSeatOccupied(aircraft, driver.row, driver.targetColumn)
    /\ \A c \in ColumnSet : isSeatOccupied(aircraft, driver.row, c)

(***************************************************************************)
(* C29  Completion flag                                                    *)
(***************************************************************************)
\* C29: in a simulation of at least one passenger isComplete is set exactly
\* when every passenger is SEATED; the step counter then stands at the tick
\* in which the last passenger was seated, which recorded the last event.
C29_CompletionFlag ==
    Len(passengers) > 0 =>
        /\ isComplete <=> \A i \in Ids : passengerStates[i].state = SEATED
        /\ isComplete =>
             /\ \A i \in Ids : passengerStates[i].seatedAt <= currentStep
             /\ \E i \in Ids : passengerStates[i].seatedAt = currentStep
             /\ events[Len(events)].type = SEAT
             /\ events[Len(events)].step = currentStep

\* a completed run of MaxPassengers passengers seated in different ticks
C29_Completed ==
    /\ isComplete
    /\ Len(passengers) = MaxPassengers
    /\ \E i, j \in Ids : passengerStates[i].seatedAt < passengerStates[j].seatedAt

(***************************************************************************)
(* C30  Step after completion                                              *)
(***************************************************************************)
\* C30: a call of step() or runToCompletion() on a completed simulation
\* leaves the step counter, the event log, the passenger states, the queue
\* and the aircraft as they are; step() returns false and runToCompletion()
\* the step counter.
C30_NoOpAfterCompletion ==
    [][(isComplete /\ driver'.after = driver.after + 1) =>
          /\ UNCHANGED <<aircraft, passengers, passengerStates, queue,
                         currentStep, isComplete, events>>
          /\ driver'.op = "step" => driver'.returned = FALSE
          /\ driver'.op = "runToCompletion" => driver'.returned = currentStep]_vars

\* a completed simulation of passengers that has had a call of step and a
\* call of runToCompletion since
C30_CalledAfter ==
    /\ isComplete
    /\ Len(passengers) > 0
    /\ driver.after = MaxCallsAfter
    /\ driver.op = "step"
    /\ Len(events) > 0

\* C31: a reset leaves the simulation as a new one is (step 0, not complete,
\* no events, every passenger WAITING with aisle cell -1 and zero counters,
\* empty queue, empty seats and aisle, bins at the configured capacity), and
\* a run made after it with the same boarding order has, at every tick
\* count up to the one the first run reached, a log that is a prefix of the
\* first run's, the same log at the same tick count, and the same completion
FreshlyConstructed ==
    /\ currentStep = 0 /\ ~isComplete /\ events = <<>> /\ queue = <<>>
    /\ \A i \in 1..Len(passengers) :
         /\ passengerStates[i].state = WAITING
         /\ passengerStates[i].aisleRow = -1
         /\ passengerStates[i].stowRemaining = 0
         /\ passengerStates[i].shuffleRemaining = 0
         /\ passengerStates[i].waitTime = 0
         /\ passengerStates[i].enteredAt = -1
         /\ passengerStates[i].seatedAt = -1
    /\ \A k \in DOMAIN aircraft.seats : aircraft.seats[k] = NoPassenger
    /\ \A r \in 0..aircraft.rows : aircraft.aisle[r] = NoPassenger
    /\ \A r \in 1..aircraft.rows :
         aircraft.binCapacity[r] = aircraft.binCapacityPerRow

Replayed ==
    (reference.reset /\ orderedIds = reference.order) =>
      /\ currentStep <= reference.steps =>
           /\ Len(events) <= Len(reference.events)
           /\ events = SubSeq(reference.events, 1, Len(events))
      /\ currentStep = reference.steps =>
           events = reference.events /\ isComplete = reference.complete
      /\ reference.complete => currentStep <= reference.steps

C31_ResetAndReplay ==
    /\ (reference.reset /\ orderedIds = <<>>) => FreshlyConstructed
    /\ Replayed

\* a run with a bin-full passenger was completed, reset, and run again to
\* its completion
C31_Replayed ==
    /\ reference.reset /\ reference.complete /\ isComplete
    /\ orderedIds = reference.order
    /\ Len(passengers) > 1
    /\ \E k \in 1..Len(events) : events[k].type = BIN_FULL

\* C32: for every genome evaluated and every scenario, the boarding order
\* of the fitness evaluation is the order runAlgorithm derives for the same
\* contract, parameters and passengers with the context of the layout
pipelineOrder(algorithm, weights, list, rows) ==
    runAlgorithm([id \in 1..Len(list) |->
                     contractPriority(algorithm, weights, list[id],
                                      createAlgorithmContext(rows, Len(list)))],
                 list)

C32_ScoresRealPipeline ==
    optimizer.pc = "evolve" =>
      \A k \in 1..Len(optimizer.evaluatedPop),
         i \in 1..Len(optimizer.testScenarios) :
        boardingOrder(info(optimizer.algorithm, optimizer.evaluatedPop[k].weights,
                           optimizer.testScenarios[i]))
          = pipelineOrder(optimizer.algorithm, optimizer.evaluatedPop[k].weights,
                          optimizer.testScenarios[i], aircraft.rows)

\* C33: findNearestBinCapacity returns null exactly when no row has the
\* capacity for the carry-on; otherwise it returns a row that has it, no
\* row that has it is nearer to the start row, and of two such rows at the
\* same distance it returns the lower; the bins are as before the call
Distance(r, q) == IF r >= q THEN r - q ELSE q - r

Sufficient(binCapacity, r, carryOnSize) ==
    \/ carryOnSize = "none"
    \/ carryOnSize = "small" /\ binCapacity[r] >= 1
    \/ carryOnSize = "large" /\ binCapacity[r] >= 2

C33_NearestBin ==
    driver.called =>
      LET rows == DOMAIN driver.before
          ok(r) == Sufficient(driver.before, r, driver.carryOnSize)
          far(r) == Distance(r, driver.startRow)
      IN /\ driver.returned = null <=> ~ \E r \in rows : ok(r)
         /\ driver.returned # null =>
              /\ driver.returned \in rows /\ ok(driver.returned)
              /\ \A r \in rows : ok(r) =>
                   \/ far(r) > far(driver.returned)
                   \/ far(r) = far(driver.returned) /\ driver.returned <= r
         /\ driver.after = driver.before

\* a search found the start row without capacity and both rows next to it
\* with it
C33_TieBelowAndAbove ==
    /\ driver.called /\ driver.returned = driver.startRow - 1
    /\ driver.startRow + 1 \in DOMAIN driver.before
    /\ driver.carryOnSize = "large"
    /\ driver.before[driver.startRow] = 1
    /\ driver.before[driver.startRow + 1] >= 2

\* C34: an aisle cell holds a passenger exactly when that passenger is
\* WALKING, STOWING, SHUFFLING or SEATING with that cell as its aisle cell,
\* a seat holds a passenger exactly when that passenger is SEATED and the
\* seat is its own, and a STOWING, SHUFFLING or SEATING passenger stands in
\* the cell of its row
C34_LayoutAgrees ==
    /\ \A c \in 0..aircraft.rows, i \in Ids :
         aircraft.aisle[c] = i <=>
           /\ passengerStates[i].state \in {WALKING, STOWING, SHUFFLING, SEATING}
           /\ passengerStates[i].aisleRow = c
    /\ \A c \in 0..aircraft.rows : aircraft.aisle[c] \in Ids \cup {NoPassenger}
    /\ \A k \in DOMAIN aircraft.seats :
         /\ aircraft.seats[k] \in Ids \cup {NoPassenger}
         /\ \A i \in Ids :
              aircraft.seats[k] = i <=>
                /\ passengerStates[i].state = SEATED
                /\ k = <<passengers[i].row, passengers[i].column>>
    /\ \A i \in Ids :
         passengerStates[i].state \in {STOWING, SHUFFLING, SEATING} =>
           /\ passengerStates[i].aisleRow = passengers[i].row
           /\ aircraft.aisle[passengers[i].row] = i

\* one passenger seated, one shuffling in the cell of its row, one walking
\* behind it
C34_AllKinds ==
    \E i, j, k \in Ids :
      /\ passengerStates[i].state = SEATED
      /\ passengerStates[j].state = SHUFFLING
      /\ passengerStates[k].state = WALKING
      /\ passengerStates[k].aisleRow < passengerStates[j].aisleRow

\* C35: of two passengers in the aisle the one admitted earlier stands in
\* a higher cell; over a tick the aisle cell of a passenger does not
\* decrease, rises by one at most, and is never beyond the passenger's row
C35_NoOvertaking ==
    /\ [](\A i, j \in Ids :
            (InAisle(i) /\ InAisle(j)
               /\ passengerStates[i].enteredAt < passengerStates[j].enteredAt)
              => passengerStates[i].aisleRow > passengerStates[j].aisleRow)
    /\ [](\A i \in Ids : passengerStates[i].aisleRow <= passengers[i].row)
    /\ [][Tick => \A i \in Ids :
                    /\ passengerStates'[i].aisleRow >= passengerStates[i].aisleRow
                    /\ passengerStates'[i].aisleRow <= passengerStates[i].aisleRow + 1]_vars

\* a passenger was held up in a cell short of its row, behind the
\* passenger admitted before it, who stands at that row
C35_Queued ==
    \E i, j \in Ids :
      /\ InAisle(i) /\ InAisle(j)
      /\ passengerStates[i].enteredAt < passengerStates[j].enteredAt
      /\ passengerStates[j].waitTime > 0
      /\ passengerStates[j].aisleRow > 0
      /\ passengers[j].row > passengerStates[j].aisleRow
      /\ passengers[i].row = passengers[j].row

\* the number of events of a type among the events evs
Count(evs, type) == Cardinality({k \in 1..Len(evs) : evs[k].type = type})

\* the number of blocking seats found at the check: the length of the list
\* of the SHUFFLE_START event, 0 without one
Found(evs) ==
    LET starts == {k \in 1..Len(evs) : evs[k].type = SHUFFLE_START}
    IN IF starts = {} THEN 0 ELSE Len(evs[CHOOSE k \in starts : TRUE].blocking)

\* row + B + S + 3K + 2 for the passenger p with the events evs
Latency(evs, p) ==
    p.row + Count(evs, AISLE_BLOCKED) + STOW_TIMES[p.carryOnSize]
      + 3 * Found(evs) + 2

\* C36: for every seated passenger seatedAt - enteredAt is row + B + S +
\* 3K + 2: the target row, the ticks recorded as aisle-blocked, the stow
\* time of the carry-on and three ticks for each blocking seat found at the
\* eligibility check
C36_BoardingLatency ==
    \A i \in Ids :
      passengerStates[i].state = SEATED =>
        passengerStates[i].seatedAt - passengerStates[i].enteredAt
          = Latency(OwnEvents(i), passengers[i])

\* a seated passenger that was blocked in the aisle, stowed a carry-on and
\* found a blocking seat
C36_AllTerms ==
    \E i \in Ids :
      /\ passengerStates[i].state = SEATED
      /\ passengers[i].carryOnSize # "none"
      /\ Count(OwnEvents(i), AISLE_BLOCKED) > 0
      /\ Found(OwnEvents(i)) > 0

\* there is a BIN_FULL event among the events evs
BinFull(evs) == \E k \in 1..Len(evs) : evs[k].type = BIN_FULL

\* passenger i ends its stowing in this tick
EndsStowing(i) == \E k \in EventsOfTick(i) : events'[k].type = STOW_END

\* C37: a passenger has a BIN_FULL event from the start of its stowing
\* exactly when the bin of its row has no room for its carry-on, all the
\* time it is stowing, and exactly when the tick that ends the stowing
\* leaves the capacity of the row as it was, the consumption having failed;
\* otherwise that tick takes the units of the carry-on from the row
C37_BinFullMatches ==
    /\ [](\A i \in Ids :
            passengerStates[i].state = STOWING =>
              (BinFull(OwnEvents(i))
                 <=> ~hasBinCapacity(aircraft, passengers[i].row,
                                     passengers[i].carryOnSize)))
    /\ [][Tick => \A i \in Ids :
            EndsStowing(i) =>
              LET row == passengers[i].row
                  units == IF passengers[i].carryOnSize = "small" THEN 1 ELSE 2
              IN IF BinFull(OwnEvents(i))
                 THEN aircraft'.binCapacity[row] = aircraft.binCapacity[row]
                 ELSE aircraft'.binCapacity[row]
                        = aircraft.binCapacity[row] - units]_vars

\* the stowing of a passenger whose carry-on found room has ended, and so
\* has the stowing of one in the same row whose carry-on found the bin full
C37_BothOutcomes ==
    \E i, j \in Ids :
      /\ passengers[i].row = passengers[j].row
      /\ passengers[j].carryOnSize = "small"
      /\ ~BinFull(OwnEvents(i)) /\ BinFull(OwnEvents(j))
      /\ STOW_END \in {e.type : e \in {OwnEvents(i)[k] : k \in 1..Len(OwnEvents(i))}}
      /\ STOW_END \in {e.type : e \in {OwnEvents(j)[k] : k \in 1..Len(OwnEvents(j))}}

Listed(entries) == {entries[k].id : k \in 1..Len(entries)}

\* the snapshot lists every passenger once, in one list, and its counts
\* add up; with a boarding order set its queueLength is the number of
\* WAITING passengers
Partitioned(snapshot) ==
    LET inAisle == snapshot.passengersInAisle
        seated == snapshot.passengersSeated
        waiting == snapshot.passengersWaiting
    IN /\ Listed(inAisle) \cup Listed(seated) \cup Listed(waiting)
            = {passengers[i].id : i \in Ids}
       /\ Len(inAisle) + Len(seated) + Len(waiting) = Len(passengers)
       /\ snapshot.seatedCount + Len(inAisle) + Len(waiting)
            = snapshot.totalPassengers
       /\ \A k \in 1..Len(waiting) : waiting[k].state = WAITING
       /\ orderedIds # <<>> => snapshot.queueLength = Len(waiting)

\* C39: in the snapshot of every state each passenger is in exactly one of
\* the lists in-aisle, seated and waiting, seatedCount + in-aisle count +
\* waiting count = totalPassengers, and once a boarding order that is a
\* permutation of the passenger ids is set queueLength is the number of
\* WAITING passengers
C39_SnapshotPartition == Partitioned(getSnapshot(Sim))

\* a snapshot of a run with two passengers in the aisle, one of them held
\* up, and one still waiting in the queue
C39_AisleAndQueue ==
    /\ orderedIds # <<>>
    /\ getSnapshot(Sim).queueLength > 0
    /\ Len(getSnapshot(Sim).passengersInAisle) > 1
    /\ \E k \in 1..Len(getSnapshot(Sim).passengersInAisle) :
         getSnapshot(Sim).passengersInAisle[k].waitTime > 0

\* C40: for every number of zones from 2 to 10 and every passenger list of
\* a layout of fewer than 1000 rows, the boarding order of the Zone-Based
\* priority is the order of the Back-to-Front priority: rows descending,
\* passengers of one row in the order of the list
C40_ZoneCountIgnored ==
    runner.called =>
      /\ runner.zoneBased = runner.backToFront
      /\ \A k \in 1..(Len(runner.zoneBased) - 1) :
           LET a == runner.passengers[runner.zoneBased[k]]
               b == runner.passengers[runner.zoneBased[k + 1]]
           IN a.row > b.row \/ (a.row = b.row /\ a.id < b.id)

\* the orders were derived for passengers of different zones listed from
\* the front, and two of one row
C40_AcrossZones ==
    /\ runner.called
    /\ runner.numZones = 3
    /\ runner.context.totalRows = ZoneRows
    /\ \E i, j, k \in 1..Len(runner.passengers) :
         /\ i < j /\ j < k
         /\ runner.passengers[i].row = 1
         /\ runner.passengers[j].row = ZoneRows
         /\ runner.passengers[k].row = ZoneRows
====
